---------------------------- MODULE Spec2Model ----------------------------
(***************************************************************************)
(* Verification model of FinancialLens: the stack-based hierarchy builder  *)
(* (hierarchy_manager.py, bilancio_parser.py), the validator's recursive   *)
(* recalculation and tolerance function (data_validator.py), the           *)
(* reclassification mapping (financial_reclassifier.py) and the            *)
(* supplement integration (enrichment_engine.py).                          *)
(*                                                                         *)
(* Amounts are integers in euro cents; the code's floats are modelled as   *)
(* exact numbers.  Percentages are fractions num/PctDen and a comparison   *)
(* against a percentage is done after multiplying both sides by PctDen.    *)
(***************************************************************************)
EXTENDS Integers, Sequences, FiniteSets, TLC

VARIABLES
  \* ---- hierarchy builder (BilancioParser._process_financial_items) ----
  flat_data,              \* list of item dicts, in stream order
  parent_stack,           \* HierarchyContext.parent_stack: indices into flat_data
  current_context,        \* section context of the page being scanned
  is_abbreviated_format,  \* extraction_result.is_abbreviated_format
  hphase,                 \* "idle" | "scan" | "done"
  \* ---- tolerance function (DataValidator._check_tolerance) ----
  validation_settings,    \* tolerance_percentage, tolerance_minimum, immediate_success_threshold
  tol_args,               \* the call's arguments val1, val2, ref_val
  tol_result,             \* the returned (status, diff)
  \* ---- supplement enrichment (EnrichmentEngine.enrich_abbreviated_data) ----
  data_map,               \* canonical name -> item dict
  section_name,           \* the enrichment section being processed
  table,                  \* rows of the merged supplement table
  ni_data,                \* list of NITableData extracted from the table
  enrich_result,          \* "none" | "no_data" | "accepted" | "rejected"
  ephase,                 \* "idle" | "table" | "analyzed" | "done"
  \* ---- validator recalculation (DataValidator._recursive_recalculate_totals) ----
  data,                   \* the statement trees: attivo, passivo, conto_economico
  n_recalc,               \* number of recalculation runs over data so far
  is_consolidated_format, \* data['metadata']['is_consolidated_format']
  validations,            \* the dictionary returned by perform_validations
  \* ---- reclassifier mapping (FinancialReclassifier._map_financial_items) ----
  mapping_rules,          \* the loaded rules, in template order, with children
  rc_flat_data,           \* the flattened statement: canonical name -> value
  reclassified_totals,    \* bucket -> total
  reclassified_details,   \* bucket -> audit lines, in the order written
  mphase,                 \* "idle" | "ready" | "mapped" | "cascaded" | "validated"
  final_data,             \* section -> bucket -> value, after the cascades
  final_details,          \* section -> bucket -> audit lines
  balance_sheet_validation, \* the result of the reclassified balance check
  \* ---- document processing (BilancioParser.parse, the retry loop of main) ----
  document,               \* what the extraction and the structuring yield in this call
  current_result,         \* the value returned by the last call of parse
  reclassification_result, \* the ReclassificationResult of the last call of parse
  first_attempt_result,   \* main: the result of attempt 1
  final_result,           \* main: the result that is kept
  attempt,                \* number of iterations of the retry loop started
  results,                \* the values returned by parse, in call order
  lphase,                 \* "idle" | "loop" | "after" | "done"
  \* ---- interactive editor (app.apply_user_modifications) ----
  stored_result,          \* the statements of the parse result kept in the session
  user_modifications,     \* the overwritten values, in the order entered
  modified_result         \* the statements returned for display

hvars == <<flat_data, parent_stack, current_context, is_abbreviated_format, hphase>>

tvars == <<validation_settings, tol_args, tol_result>>

evars == <<data_map, section_name, table, ni_data, enrich_result, ephase>>

vvars == <<data, n_recalc, is_consolidated_format, validations>>

mvars == <<mapping_rules, rc_flat_data, reclassified_totals, reclassified_details, mphase,
          final_data, final_details, balance_sheet_validation>>

dvars == <<document, current_result, reclassification_result, first_attempt_result,
          final_result, attempt, results, lphase>>

uvars == <<stored_result, user_modifications, modified_result>>

vars == <<hvars, tvars, evars, vvars, mvars, dvars, uvars>>

-----------------------------------------------------------------------------
(* Generic helpers *)

Abs(x) == IF x < 0 THEN -x ELSE x

Max(a, b) == IF a >= b THEN a ELSE b

Last(s) == s[Len(s)]

Front(s) == SubSeq(s, 1, Len(s) - 1)

RECURSIVE SumSeq(_)
SumSeq(s) == IF s = <<>> THEN 0 ELSE s[1] + SumSeq(Tail(s))

-----------------------------------------------------------------------------
(* Bounds *)

MaxItems == 4

-----------------------------------------------------------------------------
(* Taxonomy schema: a small instance of the YAML schema.  Each entry tells *)
(* the section, the branch, the enclosing schema key ("<none>" for a       *)
(* first-level key) and whether the node has a 'dettaglio' key.            *)

\* _check_tolerance has not returned yet
NoToleranceResult == [status |-> "<none>", diff |-> 0]

Schema ==
  ("C) Attivo circolante" :> [section |-> "stato_patrimoniale", branch |-> "attivo",
                        parent |-> "<none>", dettaglio |-> TRUE]) @@
  ("II - Crediti"          :> [section |-> "stato_patrimoniale", branch |-> "attivo",
                        parent |-> "C) Attivo circolante", dettaglio |-> TRUE]) @@
  ("Crediti verso clienti"   :> [section |-> "stato_patrimoniale", branch |-> "attivo",
                        parent |-> "II - Crediti", dettaglio |-> FALSE]) @@
  ("A) Valore della produzione" :> [section |-> "conto_economico", branch |-> "A) Valore della produzione",
                        parent |-> "<none>", dettaglio |-> TRUE])

SchemaNames == DOMAIN Schema

\* ConfigurationManager._create_contextual_and_parent_configs, recurse_node:
\* parent_map[key] = parent_key if parent_key else branch_key
parent_map == [key \in SchemaNames |->
                 IF Schema[key].parent # "<none>" THEN Schema[key].parent
                 ELSE Schema[key].branch]

\* process_financial_item: config_node and 'dettaglio' in config_node
is_potential_parent(voce) == voce \in SchemaNames /\ Schema[voce].dettaglio

\* Values the PDF can carry for a line (cents)
ItemValues == {0, 40, 60}

-----------------------------------------------------------------------------
(* Hierarchy builder *)

NewItem(voce, valore, contesto) ==
  [voce_canonica |-> voce, valore |-> valore, contesto |-> contesto,
   has_children_buffer |-> FALSE, children_buffer |-> <<>>,
   pushed |-> FALSE, completed |-> 0]

RECURSIVE BufferSum(_, _)
BufferSum(items, buf) ==
  IF buf = <<>> THEN 0 ELSE items[buf[1]].valore + BufferSum(items, Tail(buf))

\* Variant: aggregates whenever the buffer is non-empty, whatever the own value
ProcessCompletedParent_AlwaysSum(items, i) ==
  LET parent_item     == items[i]
      children_buffer == IF parent_item.has_children_buffer
                         THEN parent_item.children_buffer ELSE <<>>
      valore == IF children_buffer # <<>>
                THEN BufferSum(items, children_buffer)
                ELSE parent_item.valore
  IN [items EXCEPT ![i] = [parent_item EXCEPT
                             !.valore = valore,
                             !.has_children_buffer = FALSE,
                             !.children_buffer = <<>>,
                             !.completed = @ + 1]]

\* HierarchyManager._process_completed_parent
_process_completed_parent(items, i) ==
  LET parent_item     == items[i]
      children_buffer == IF parent_item.has_children_buffer
                         THEN parent_item.children_buffer ELSE <<>>
      valore == IF children_buffer # <<>> /\ parent_item.valore = 0
                THEN BufferSum(items, children_buffer)
                ELSE parent_item.valore
  IN [items EXCEPT ![i] = [parent_item EXCEPT
                             !.valore = valore,
                             !.has_children_buffer = FALSE,
                             !.children_buffer = <<>>,
                             !.completed = @ + 1]]

\* Variant: 'if' instead of 'while', at most one parent is popped
PopLoop_Once(stack, items, item_parent_name) ==
  IF stack # <<>> /\ item_parent_name # items[Last(stack)].voce_canonica
  THEN [stack |-> Front(stack),
        items |-> _process_completed_parent(items, Last(stack))]
  ELSE [stack |-> stack, items |-> items]

\* The pop loop of process_financial_item (lines 100-106)
RECURSIVE PopLoop(_, _, _)
PopLoop(stack, items, item_parent_name) ==
  IF stack # <<>> /\ item_parent_name # items[Last(stack)].voce_canonica
  THEN PopLoop(Front(stack), _process_completed_parent(items, Last(stack)),
               item_parent_name)
  ELSE [stack |-> stack, items |-> items]

\* Append an item reference to the children buffer of the item at index p
AppendToBuffer(items, p, i) ==
  [items EXCEPT ![p] = [@ EXCEPT !.has_children_buffer = TRUE,
                                 !.children_buffer = Append(@, i)]]

\* Variant: the item is put into the buffer of the parent that is open when
\* the call starts, before the pop loop runs
ProcessItemWith_AttachFirst(stack, items, i, item_parent_name, potential_parent) ==
  LET items0 == IF stack # <<>> THEN AppendToBuffer(items, Last(stack), i) ELSE items
      popped == PopLoop(stack, items0, item_parent_name)
  IN IF potential_parent
     THEN [stack |-> Append(popped.stack, i),
           items |-> [popped.items EXCEPT ![i] = [@ EXCEPT !.pushed = TRUE]]]
     ELSE [stack |-> popped.stack, items |-> popped.items]

\* The body of process_financial_item (lines 100-127) for the item stored at
\* index i, given parent_map.get(voce_canonica) and is_potential_parent
ProcessItemWith(stack, items, i, item_parent_name, potential_parent) ==
  LET popped == PopLoop(stack, items, item_parent_name)
      items2 == IF popped.stack # <<>>
                THEN AppendToBuffer(popped.items, Last(popped.stack), i)
                ELSE popped.items
  IN IF potential_parent
     THEN [stack |-> Append(popped.stack, i),
           items |-> [items2 EXCEPT ![i] = [@ EXCEPT !.pushed = TRUE]]]
     ELSE [stack |-> popped.stack, items |-> items2]

\* HierarchyManager.process_financial_item, applied to the item stored at
\* index i of items
process_financial_item(stack, items, i) ==
  ProcessItemWith(stack, items, i,
                  IF items[i].voce_canonica \in DOMAIN parent_map
                  THEN parent_map[items[i].voce_canonica] ELSE "<none>",
                  is_potential_parent(items[i].voce_canonica))

\* Variant: only the top of the stack is finalized
FinalizeHierarchyContext_TopOnly(stack, items) ==
  IF stack # <<>>
  THEN [stack |-> Front(stack),
        items |-> _process_completed_parent(items, Last(stack))]
  ELSE [stack |-> stack, items |-> items]

\* HierarchyManager.finalize_hierarchy_context
RECURSIVE finalize_hierarchy_context(_, _)
finalize_hierarchy_context(stack, items) ==
  IF stack # <<>>
  THEN finalize_hierarchy_context(Front(stack),
                                  _process_completed_parent(items, Last(stack)))
  ELSE [stack |-> stack, items |-> items]

\* Components that take no part in a specification stay in their idle state
IdleH ==
  /\ flat_data = <<>>
  /\ parent_stack = <<>>
  /\ current_context = "<no context>"
  /\ is_abbreviated_format = FALSE
  /\ hphase = "idle"

IdleT ==
  /\ validation_settings = [tolerance_percentage |-> 0, tolerance_minimum |-> 0,
                            immediate_success_threshold |-> 0]
  /\ tol_args = [val1 |-> 0, val2 |-> 0, ref_val |-> 0]
  /\ tol_result = NoToleranceResult

IdleE ==
  /\ data_map = <<>>
  /\ section_name = "<no context>"
  /\ table = <<>>
  /\ ni_data = <<>>
  /\ enrich_result = "none"
  /\ ephase = "idle"

\* A check that was not performed, and the state before any validation
NoCheck ==
  [present |-> FALSE, status |-> "<none>", val1 |-> 0, val2 |-> 0,
   discrepanza |-> 0, utile_di_terzi |-> 0]

NoValidations ==
  [summary |-> "<none>", missing_message |-> FALSE,
   attivo_vs_passivo |-> NoCheck, coerenza_utile_esercizio |-> NoCheck]

IdleV ==
  /\ data = [attivo |-> <<>>, passivo |-> <<>>, conto_economico |-> <<>>]
  /\ n_recalc = 0
  /\ is_consolidated_format = FALSE
  /\ validations = NoValidations

\* No balance validation yet (an empty dictionary)
NoBalanceValidation ==
  [status |-> "<none>", assets_total |-> 0, liabilities_total |-> 0,
   difference |-> 0, tolerance_used |-> 0]

IdleR ==
  /\ final_data = <<>>
  /\ final_details = <<>>
  /\ balance_sheet_validation = NoBalanceValidation

IdleM ==
  /\ mapping_rules = <<>>
  /\ rc_flat_data = <<>>
  /\ reclassified_totals = <<>>
  /\ reclassified_details = <<>>
  /\ mphase = "idle"
  /\ IdleR

\* The statement trees of a document in which nothing was structured
NoStatements == [attivo |-> <<>>, passivo |-> <<>>, conto_economico |-> <<>>]

\* No call of parse has been made yet
NoDocument ==
  [tables |-> FALSE, items |-> FALSE, raises |-> "none", configuration_valid |-> FALSE,
   is_consolidated_format |-> FALSE, structured_data |-> NoStatements]

\* ReclassificationResult(success, reclassified_data, reclassified_details,
\* balance_sheet_validation, orphan_voices_count)
ReclassificationResult(success, rdata, rdetails, validation, orphan_count) ==
  [success |-> success, reclassified_data |-> rdata, reclassified_details |-> rdetails,
   balance_sheet_validation |-> validation, orphan_voices_count |-> orphan_count]

\* BilancioParser._create_failed_reclassification_result; the empty
\* dictionaries are <<>> and NoBalanceValidation
_create_failed_reclassification_result ==
  ReclassificationResult(FALSE, <<>>, <<>>, NoBalanceValidation, 0)

\* The value None returned by parse: a result with no key at all
NoneResult ==
  [is_none |-> TRUE, keys |-> {},
   metadata |-> [file_name |-> "<none>", is_consolidated_format |-> FALSE],
   stato_patrimoniale |-> [attivo |-> <<>>, passivo |-> <<>>],
   conto_economico |-> <<>>,
   validazioni |-> NoValidations,
   reclassification |-> [keys |-> {}, success |-> FALSE, error |-> "<none>",
                         reclassified_data |-> <<>>, reclassified_details |-> <<>>,
                         balance_sheet_validation |-> NoBalanceValidation,
                         orphan_voices_count |-> 0]]

IdleD ==
  /\ document = NoDocument
  /\ current_result = NoneResult
  /\ reclassification_result = _create_failed_reclassification_result
  /\ first_attempt_result = NoneResult
  /\ final_result = NoneResult
  /\ attempt = 0
  /\ results = <<>>
  /\ lphase = "idle"

\* No statement is held by the editor
IdleU ==
  /\ stored_result = [attivo |-> <<>>, passivo |-> <<>>, conto_economico |-> <<>>]
  /\ user_modifications = <<>>
  /\ modified_result = [attivo |-> <<>>, passivo |-> <<>>, conto_economico |-> <<>>]

InitH ==
  /\ IdleU
  /\ IdleD
  /\ IdleT
  /\ IdleE
  /\ IdleV
  /\ IdleM
  /\ flat_data = <<>>
  /\ parent_stack = <<>>
  /\ current_context = "<no context>"
  /\ is_abbreviated_format \in BOOLEAN
  /\ hphase = "scan"

\* Variant: the section changes and the open parents are left on the stack
ContextChange_NoFinalize ==
  /\ hphase = "scan"
  /\ \E new_context \in {"stato_patrimoniale", "conto_economico"} :
       /\ new_context # current_context
       /\ current_context' = new_context
  /\ UNCHANGED <<parent_stack, flat_data, is_abbreviated_format, hphase, tvars, evars, vvars,
                 mvars, dvars, uvars>>

\* A page whose detected section differs from the current one
ContextChange ==
  LET
       Contexts == {"stato_patrimoniale", "conto_economico"}
  IN  /\ hphase = "scan"
      /\ \E new_context \in Contexts :
           /\ new_context # current_context
           /\ LET fin == finalize_hierarchy_context(parent_stack, flat_data)
              IN /\ parent_stack' = fin.stack
                 /\ flat_data' = fin.items
           /\ current_context' = new_context
      /\ UNCHANGED <<is_abbreviated_format, hphase, tvars, evars, vvars, mvars, dvars, uvars>>

\* A classified line: item_data is built, processed and appended to flat_data
ClassifiedItem ==
  /\ hphase = "scan"
  /\ current_context # "<no context>"
  /\ Len(flat_data) < MaxItems
  /\ \E voce \in {n \in SchemaNames : Schema[n].section = current_context},
        valore_riga \in ItemValues :
       LET i   == Len(flat_data) + 1
           res == process_financial_item(parent_stack,
                                         Append(flat_data, NewItem(voce, valore_riga,
                                                                   current_context)), i)
       IN /\ parent_stack' = res.stack
          /\ flat_data' = res.items
  /\ UNCHANGED <<current_context, is_abbreviated_format, hphase, tvars, evars, vvars, mvars,
                 dvars, uvars>>

\* Abbreviated format: an 'imposte anticipate' sub-line with a non-zero value
\* is attached to 'II - Crediti' when that is the top of the stack
ImposteAnticipateItem ==
  /\ hphase = "scan"
  /\ current_context # "<no context>"
  /\ is_abbreviated_format
  /\ Len(flat_data) < MaxItems
  /\ \E valore_riga \in ItemValues \ {0} :
       LET i     == Len(flat_data) + 1
           items == Append(flat_data, NewItem("Crediti per imposte anticipate",
                                              valore_riga, current_context))
       IN /\ flat_data' =
               IF parent_stack # <<>>
                  /\ items[Last(parent_stack)].voce_canonica = "II - Crediti"
               THEN AppendToBuffer(items, Last(parent_stack), i)
               ELSE items
  /\ UNCHANGED <<parent_stack, current_context, is_abbreviated_format, hphase, tvars, evars, vvars, mvars,
                 dvars, uvars>>

\* End of the page loop: the last section is finalized
EndOfDocument ==
  /\ hphase = "scan"
  /\ LET fin == finalize_hierarchy_context(parent_stack, flat_data)
     IN /\ parent_stack' = fin.stack
        /\ flat_data' = fin.items
  /\ hphase' = "done"
  /\ UNCHANGED <<current_context, is_abbreviated_format, tvars, evars, vvars, mvars, dvars, uvars>>

NextH == ContextChange \/ ClassifiedItem \/ ImposteAnticipateItem \/ EndOfDocument

SpecH == InitH /\ [][NextH]_vars

-----------------------------------------------------------------------------
(* The hierarchy builder under an arbitrary parent map *)

\* Number of calls of process_financial_item in a run under an arbitrary map
MaxCalls == 3

\* process_financial_item where parent_map.get(voce_canonica) and the
\* 'dettaglio' test may give any answer: every parent map, a cyclic one or
\* one naming parents that do not exist included, gives one of these answers
\* at each call
ArbitraryItem ==
  /\ hphase = "scan"
  /\ current_context # "<no context>"
  /\ Len(flat_data) < MaxCalls
  /\ \E voce \in {"II - Crediti", "Crediti verso clienti"},
        valore \in {0, 40},
        item_parent_name \in {"II - Crediti", "Crediti verso clienti", "<none>"},
        potential_parent \in BOOLEAN :
       LET i   == Len(flat_data) + 1
           res == ProcessItemWith(parent_stack,
                                  Append(flat_data, NewItem(voce, valore, current_context)),
                                  i, item_parent_name, potential_parent)
       IN /\ parent_stack' = res.stack
          /\ flat_data' = res.items
  /\ UNCHANGED <<current_context, is_abbreviated_format, hphase, tvars, evars, vvars, mvars,
                 dvars, uvars>>

NextK == ContextChange \/ ArbitraryItem \/ EndOfDocument

SpecK == InitH /\ [][NextK]_vars

-----------------------------------------------------------------------------
(* Tolerance function of the validator *)

\* Percentages are tolerance_percentage / PctDen
PctDen == 100

\* ConfigurationManager.get_validation_config: 1 %, 2.00, 2.00
ShippedSettings ==
  [tolerance_percentage |-> 1, tolerance_minimum |-> 200,
   immediate_success_threshold |-> 200]

\* DataValidator.__init__ reads the three settings from its configuration
ValidationSettings ==
  { ShippedSettings,
    [tolerance_percentage |-> 0, tolerance_minimum |-> 100,
     immediate_success_threshold |-> 400],
    [tolerance_percentage |-> 2, tolerance_minimum |-> 100,
     immediate_success_threshold |-> 200],
    [tolerance_percentage |-> 1, tolerance_minimum |-> 300,
     immediate_success_threshold |-> 100] }

\* Compared amounts (cents)
TolValues == {0, 150, 300, 50000, 50300, 50600,
              10000000, 10000150, 10090000, 10250000}

\* Variant: the percentage tolerance is taken without abs()
CheckTolerance_NoAbs(settings, val1, val2, ref_val) ==
  LET diff == Abs(val1 - val2)
  IN IF ref_val = 0
     THEN IF diff > settings.tolerance_minimum
          THEN [status |-> "failed", diff |-> diff]
          ELSE [status |-> "success", diff |-> diff]
     ELSE LET tolerance == Max(ref_val * settings.tolerance_percentage,
                               settings.tolerance_minimum * PctDen)
          IN IF diff <= settings.immediate_success_threshold
             THEN [status |-> "success", diff |-> diff]
             ELSE IF diff * PctDen <= tolerance
                  THEN [status |-> "success_with_tolerance", diff |-> diff]
                  ELSE [status |-> "failed", diff |-> diff]

\* Variant: the tolerance test is applied before the immediate-success test
CheckTolerance_Swapped(settings, val1, val2, ref_val) ==
  LET diff == Abs(val1 - val2)
  IN IF ref_val = 0
     THEN IF diff > settings.tolerance_minimum
          THEN [status |-> "failed", diff |-> diff]
          ELSE [status |-> "success", diff |-> diff]
     ELSE LET tolerance == Max(Abs(ref_val * settings.tolerance_percentage),
                               settings.tolerance_minimum * PctDen)
          IN IF diff * PctDen <= tolerance
             THEN [status |-> "success_with_tolerance", diff |-> diff]
             ELSE IF diff <= settings.immediate_success_threshold
                  THEN [status |-> "success", diff |-> diff]
                  ELSE [status |-> "failed", diff |-> diff]

\* DataValidator._check_tolerance; 'tolerance' is kept multiplied by PctDen
_check_tolerance(settings, val1, val2, ref_val) ==
  LET diff == Abs(val1 - val2)
  IN IF ref_val = 0
     THEN IF diff > settings.tolerance_minimum
          THEN [status |-> "failed", diff |-> diff]
          ELSE [status |-> "success", diff |-> diff]
     ELSE LET tolerance == Max(Abs(ref_val * settings.tolerance_percentage),
                               settings.tolerance_minimum * PctDen)
          IN IF diff <= settings.immediate_success_threshold
             THEN [status |-> "success", diff |-> diff]
             ELSE IF diff * PctDen <= tolerance
                  THEN [status |-> "success_with_tolerance", diff |-> diff]
                  ELSE [status |-> "failed", diff |-> diff]

InitT ==
  LET
       \* Reference amounts (cents)
       RefValues == {0, -50000, 50000, 10000000}
  IN  /\ IdleU
      /\ IdleD
      /\ IdleH
      /\ IdleE
      /\ IdleV
      /\ IdleM
      /\ validation_settings \in ValidationSettings
      /\ tol_args \in [val1 : TolValues, val2 : TolValues, ref_val : RefValues]
      /\ tol_result = NoToleranceResult

CheckTolerance ==
  /\ tol_result = NoToleranceResult
  /\ tol_result' = _check_tolerance(validation_settings, tol_args.val1,
                                    tol_args.val2, tol_args.ref_val)
  /\ UNCHANGED <<validation_settings, tol_args, hvars, evars, vvars, mvars, dvars, uvars>>

NextT == CheckTolerance

SpecT == InitT /\ [][NextT]_vars

-----------------------------------------------------------------------------
(* Tree nodes.  An item dict is a record; its 'dettaglio' map is the        *)
(* sequence of its child nodes in insertion order, keyed by voce_canonica.  *)
(* An absent and an empty 'dettaglio' are both <<>>.  '_dettaglio_scadenza' *)
(* is the record scadenza; an absent key of it reads as 0.                  *)

NoScadenza == [present |-> FALSE, entro |-> 0, oltre |-> 0]

Node(voce, valore, dettaglio) ==
  [voce_canonica |-> voce, valore |-> valore, dettaglio |-> dettaglio,
   enriched_from_ni |-> FALSE, from_ni |-> FALSE, scadenza |-> NoScadenza]

Leaf(voce, valore) == Node(voce, valore, <<>>)

\* d[key] = node on an insertion-ordered dict
DictSet(d, node) ==
  IF \E k \in 1..Len(d) : d[k].voce_canonica = node.voce_canonica
  THEN [k \in 1..Len(d) |->
          IF d[k].voce_canonica = node.voce_canonica THEN node ELSE d[k]]
  ELSE Append(d, node)

\* sum(child.get('valore', 0.0) for child in dettaglio.values())
RECURSIVE SumValore(_)
SumValore(d) == IF d = <<>> THEN 0 ELSE d[1].valore + SumValore(Tail(d))

-----------------------------------------------------------------------------
(* Supplement enrichment *)

MaxRows == 2

\* enrichment_rules: section -> ordered 'children' rule names
enrichment_rules ==
  ("II - Crediti" :> <<"Crediti verso clienti", "Crediti tributari">>) @@
  ("D) Debiti"  :> <<"Debiti verso banche", "Debiti verso fornitori">>)

\* f"{voce_canonica_dettaglio} esigibili entro l'esercizio successivo"
EntroKey(voce) ==
  CASE voce = "Crediti verso clienti"   -> "Crediti verso clienti esigibili entro l'esercizio successivo"
    [] voce = "Crediti tributari" -> "Crediti tributari esigibili entro l'esercizio successivo"
    [] voce = "Debiti verso banche"     -> "Debiti verso banche esigibili entro l'esercizio successivo"
    [] voce = "Debiti verso fornitori"  -> "Debiti verso fornitori esigibili entro l'esercizio successivo"

\* f"{voce_canonica_dettaglio} esigibili oltre l'esercizio successivo"
OltreKey(voce) ==
  CASE voce = "Crediti verso clienti"   -> "Crediti verso clienti esigibili oltre l'esercizio successivo"
    [] voce = "Crediti tributari" -> "Crediti tributari esigibili oltre l'esercizio successivo"
    [] voce = "Debiti verso banche"     -> "Debiti verso banche esigibili oltre l'esercizio successivo"
    [] voce = "Debiti verso fornitori"  -> "Debiti verso fornitori esigibili oltre l'esercizio successivo"

\* Tolerance of the integration: max(abs(schema_total * 0.01), 2.0)
EnrichTolerancePct == 1

EnrichToleranceMin == 200

\* ratio > 10: the supplement total is trusted
RatioOverride == 10

\* The total, short-term and long-term cells of a row (cents)
RowAmounts ==
  { [total |-> 10000,   short_term |-> 3000, long_term |-> 7000],
    [total |-> 0,       short_term |-> 3000, long_term |-> 7000],
    [total |-> 10000,   short_term |-> 3000, long_term |-> 0],
    [total |-> 4990100, short_term |-> 0,    long_term |-> 0] }

\* The NITableData built from a matched row
NITableData(rules, pos, idx, row) ==
  LET total_val == row.amounts.total
      short_val == row.amounts.short_term
      long_val  == row.amounts.long_term
  IN [voce_canonica |-> rules[pos],
      voce_originale |-> idx,
      valore |-> IF total_val # 0 THEN total_val ELSE short_val + long_val,
      valore_entro |-> short_val,
      valore_oltre |-> long_val]

\* Variant: a matched rule stays in the pool
Without_KeepAll(available, pos) == available

\* Positions still available, in rule order
Without(available, pos) == SelectSeq(available, LAMBDA p : p # pos)

\* First element of a best-first candidate list that is still available; 0 if none
RECURSIVE BestMatch(_, _)
BestMatch(candidates, available) ==
  IF candidates = <<>> THEN 0
  ELSE IF \E k \in 1..Len(available) : available[k] = candidates[1]
       THEN candidates[1]
       ELSE BestMatch(Tail(candidates), available)

\* Pass 0: first available rule, in rule order, with a pattern in the row
FirstPattern(available, patterns) ==
  LET hits == SelectSeq(available, LAMBDA p : p \in patterns)
  IN IF hits = <<>> THEN 0 ELSE hits[1]

\* One matching pass over rows k..Len(rows); pass is 0, 1 or 2
RECURSIVE MatchPass(_, _, _, _, _, _)
MatchPass(pass, rules, rows, k, available, acc) ==
  IF k > Len(rows)
  THEN [extracted |-> acc.extracted, remaining |-> acc.remaining,
        available |-> available]
  ELSE LET row == rows[k]
           pos == CASE pass = 0 -> FirstPattern(available, row.row.match.patterns)
                    [] pass = 1 -> BestMatch(row.row.match.ratio, available)
                    [] pass = 2 -> BestMatch(row.row.match.wratio, available)
       IN IF pos # 0
          THEN MatchPass(pass, rules, rows, k + 1, Without(available, pos),
                         [extracted |-> Append(acc.extracted,
                                               NITableData(rules, pos, row.idx, row.row)),
                          remaining |-> acc.remaining])
          ELSE MatchPass(pass, rules, rows, k + 1, available,
                         [extracted |-> acc.extracted,
                          remaining |-> Append(acc.remaining, row)])

\* Variant: the flexible pass runs before the high-confidence pass
AnalyzeNiTableRows_FlexibleFirst(tbl, rules) ==
  LET rows_to_process == [k \in 1..Len(tbl) |-> [idx |-> k, row |-> tbl[k]]]
      pass0 == MatchPass(0, rules, rows_to_process, 1, [p \in 1..Len(rules) |-> p],
                         [extracted |-> <<>>, remaining |-> <<>>])
  IN IF pass0.remaining = <<>> \/ pass0.available = <<>>
     THEN pass0.extracted
     ELSE LET pass2 == MatchPass(2, rules, pass0.remaining, 1, pass0.available,
                                 [extracted |-> pass0.extracted, remaining |-> <<>>])
          IN IF pass2.remaining # <<>> /\ pass2.available # <<>>
             THEN MatchPass(1, rules, pass2.remaining, 1, pass2.available,
                            [extracted |-> pass2.extracted,
                             remaining |-> <<>>]).extracted
             ELSE pass2.extracted

\* EnrichmentEngine._analyze_ni_table_rows over the data rows of the table
_analyze_ni_table_rows(tbl, rules) ==
  LET rows_to_process == [k \in 1..Len(tbl) |-> [idx |-> k, row |-> tbl[k]]]
      available_rules == [p \in 1..Len(rules) |-> p]
      pass0 == MatchPass(0, rules, rows_to_process, 1, available_rules,
                         [extracted |-> <<>>, remaining |-> <<>>])
  IN IF pass0.remaining = <<>> \/ pass0.available = <<>>
     THEN pass0.extracted
     ELSE LET pass1 == MatchPass(1, rules, pass0.remaining, 1, pass0.available,
                                 [extracted |-> pass0.extracted, remaining |-> <<>>])
          IN IF pass1.remaining # <<>> /\ pass1.available # <<>>
             THEN MatchPass(2, rules, pass1.remaining, 1, pass1.available,
                            [extracted |-> pass1.extracted,
                             remaining |-> <<>>]).extracted
             ELSE pass1.extracted

\* The synthetic child created for one NITableData (lines 531-563)
DettaglioNode(item) ==
  LET entro == IF item.valore_entro > 0
               THEN <<[Leaf(EntroKey(item.voce_canonica), item.valore_entro)
                         EXCEPT !.from_ni = TRUE]>>
               ELSE <<>>
      oltre == IF item.valore_oltre > 0
               THEN <<[Leaf(OltreKey(item.voce_canonica), item.valore_oltre)
                         EXCEPT !.from_ni = TRUE]>>
               ELSE <<>>
  IN [Node(item.voce_canonica, item.valore, entro \o oltre) EXCEPT !.from_ni = TRUE]

RECURSIVE BuildDettaglio(_, _)
BuildDettaglio(items, d) ==
  IF items = <<>> THEN d
  ELSE BuildDettaglio(Tail(items), DictSet(d, DettaglioNode(items[1])))

RECURSIVE SumNI(_)
SumNI(items) == IF items = <<>> THEN 0 ELSE items[1].valore + SumNI(Tail(items))

\* Variant: the node is overwritten before the tolerance check decides
IntegrateNiData_WriteFirst(dm, section, items) ==
  IF section \notin DOMAIN dm
  THEN [ok |-> FALSE, data_map |-> dm]
  ELSE LET parent_node  == dm[section]
           schema_total == IF parent_node.valore = 0 /\ parent_node.scadenza.present
                           THEN parent_node.scadenza.entro + parent_node.scadenza.oltre
                           ELSE parent_node.valore
           ni_total     == SumNI(items)
           skip_validation ==
             section = "II - Crediti" /\ schema_total > 0
               /\ ni_total > RatioOverride * schema_total
           tolerance    == Max(Abs(schema_total * EnrichTolerancePct),
                               EnrichToleranceMin * PctDen)
           written == [dm EXCEPT ![section] =
                         [parent_node EXCEPT !.scadenza = NoScadenza,
                                             !.valore = ni_total,
                                             !.dettaglio = BuildDettaglio(items, <<>>),
                                             !.enriched_from_ni = TRUE]]
       IN IF schema_total > 0 /\ ~skip_validation
             /\ Abs(schema_total - ni_total) * PctDen > tolerance
          THEN [ok |-> FALSE, data_map |-> written]
          ELSE [ok |-> TRUE, data_map |-> written]

\* Variant: the node keeps its schema value when the supplement is accepted
IntegrateNiData_KeepValue(dm, section, items) ==
  IF section \notin DOMAIN dm
  THEN [ok |-> FALSE, data_map |-> dm]
  ELSE LET parent_node  == dm[section]
           schema_total == IF parent_node.valore = 0 /\ parent_node.scadenza.present
                           THEN parent_node.scadenza.entro + parent_node.scadenza.oltre
                           ELSE parent_node.valore
           ni_total     == SumNI(items)
           skip_validation ==
             section = "II - Crediti" /\ schema_total > 0
               /\ ni_total > RatioOverride * schema_total
           tolerance    == Max(Abs(schema_total * EnrichTolerancePct),
                               EnrichToleranceMin * PctDen)
       IN IF schema_total > 0 /\ ~skip_validation
             /\ Abs(schema_total - ni_total) * PctDen > tolerance
          THEN [ok |-> FALSE, data_map |-> dm]
          ELSE [ok |-> TRUE,
                data_map |-> [dm EXCEPT ![section] =
                   [parent_node EXCEPT !.scadenza = NoScadenza,
                                       !.dettaglio = BuildDettaglio(items, <<>>),
                                       !.enriched_from_ni = TRUE]]]

\* Variant: the ratio override is applied to every enrichment section
IntegrateNiData_RatioAnySection(dm, section, items) ==
  IF section \notin DOMAIN dm
  THEN [ok |-> FALSE, data_map |-> dm]
  ELSE LET parent_node  == dm[section]
           schema_total == IF parent_node.valore = 0 /\ parent_node.scadenza.present
                           THEN parent_node.scadenza.entro + parent_node.scadenza.oltre
                           ELSE parent_node.valore
           ni_total     == SumNI(items)
           skip_validation ==
             schema_total > 0 /\ ni_total > RatioOverride * schema_total
           tolerance    == Max(Abs(schema_total * EnrichTolerancePct),
                               EnrichToleranceMin * PctDen)
       IN IF schema_total > 0 /\ ~skip_validation
             /\ Abs(schema_total - ni_total) * PctDen > tolerance
          THEN [ok |-> FALSE, data_map |-> dm]
          ELSE [ok |-> TRUE,
                data_map |-> [dm EXCEPT ![section] =
                   [parent_node EXCEPT !.scadenza = NoScadenza,
                                       !.valore = ni_total,
                                       !.dettaglio = BuildDettaglio(items, <<>>),
                                       !.enriched_from_ni = TRUE]]]

\* EnrichmentEngine._integrate_ni_data.  The block of lines 480-498 sets
\* skip_validation and line 501 resets it, so only the ratio rule remains;
\* 'tolerance' is kept multiplied by PctDen.
_integrate_ni_data(dm, section, items) ==
  IF section \notin DOMAIN dm
  THEN [ok |-> FALSE, data_map |-> dm]
  ELSE LET parent_node  == dm[section]
           schema_total == IF parent_node.valore = 0 /\ parent_node.scadenza.present
                           THEN parent_node.scadenza.entro + parent_node.scadenza.oltre
                           ELSE parent_node.valore
           ni_total     == SumNI(items)
           skip_validation ==
             section = "II - Crediti" /\ schema_total > 0
               /\ ni_total > RatioOverride * schema_total
           tolerance    == Max(Abs(schema_total * EnrichTolerancePct),
                               EnrichToleranceMin * PctDen)
       IN IF schema_total > 0 /\ ~skip_validation
             /\ Abs(schema_total - ni_total) * PctDen > tolerance
          THEN [ok |-> FALSE, data_map |-> dm]
          ELSE [ok |-> TRUE,
                data_map |-> [dm EXCEPT ![section] =
                   [parent_node EXCEPT !.scadenza = NoScadenza,
                                       !.valore = ni_total,
                                       !.dettaglio = BuildDettaglio(items, <<>>),
                                       !.enriched_from_ni = TRUE]]]

InitE ==
  LET
       \* What the description of a table row matches, as positions in the section's
       \* rule list: the rules with a literal pattern contained in the description,
       \* the rules reaching the high-confidence cutoff with fuzz.ratio (best first)
       \* and the rules reaching the score cutoff with fuzz.WRatio (best first)
       RowMatches ==
         { [patterns |-> {1},    ratio |-> <<>>,     wratio |-> <<>>],
           [patterns |-> {1, 2}, ratio |-> <<>>,     wratio |-> <<>>],
           [patterns |-> {},     ratio |-> <<1>>,    wratio |-> <<1>>],
           [patterns |-> {},     ratio |-> <<2, 1>>, wratio |-> <<2, 1>>],
           [patterns |-> {},     ratio |-> <<>>,     wratio |-> <<1, 2>>],
           [patterns |-> {},     ratio |-> <<>>,     wratio |-> <<>>] }
       Rows == [match : RowMatches, amounts : RowAmounts]
       Tables == UNION { [1..n -> Rows] : n \in 0..MaxRows }
       \* Schema-derived value of the section node before enrichment (cents)
       SchemaValues == {0, 10000, 5000000, -10000}
       \* The section node as the main parse left it
       SectionNodes(section) ==
         { [Node(section, v, d) EXCEPT !.scadenza = sc] :
             v \in SchemaValues,
             d \in { <<>>, <<Leaf("Crediti verso altri (Attivo Circolante)", 10000)>> },
             sc \in { NoScadenza, [present |-> TRUE, entro |-> 3000, oltre |-> 7000] } }
  IN  /\ IdleU
      /\ IdleD
      /\ IdleH
      /\ IdleT
      /\ IdleV
      /\ IdleM
      /\ section_name \in DOMAIN enrichment_rules
      /\ \E node \in SectionNodes(section_name) :
           data_map = (section_name :> node) @@ ("IV - Disponibilita liquide" :> Leaf("IV - Disponibilita liquide", 500))
      /\ table \in Tables
      /\ ni_data = <<>>
      /\ enrich_result = "none"
      /\ ephase = "table"

\* enrich_abbreviated_data: the three-pass analysis of the merged table
AnalyzeTable ==
  /\ ephase = "table"
  /\ section_name \in DOMAIN data_map
  /\ ni_data' = _analyze_ni_table_rows(table, enrichment_rules[section_name])
  /\ ephase' = "analyzed"
  /\ UNCHANGED <<data_map, section_name, table, enrich_result, hvars, tvars, vvars, mvars,
                 dvars, uvars>>

\* enrich_abbreviated_data: 'if not ni_data: continue', else the integration
IntegrateSection ==
  /\ ephase = "analyzed"
  /\ IF ni_data = <<>>
     THEN /\ enrich_result' = "no_data"
          /\ data_map' = data_map
     ELSE LET res == _integrate_ni_data(data_map, section_name, ni_data)
          IN /\ data_map' = res.data_map
             /\ enrich_result' = IF res.ok THEN "accepted" ELSE "rejected"
  /\ ephase' = "done"
  /\ UNCHANGED <<section_name, table, ni_data, hvars, tvars, vvars, mvars, dvars, uvars>>

NextE == AnalyzeTable \/ IntegrateSection

SpecE == InitE /\ [][NextE]_vars

-----------------------------------------------------------------------------
(* Validator: recursive recalculation of totals *)

MaxRecalc == 2

\* dettaglio.get(key, {}).get('valore', 0.0)
ValoreOf(d, key) ==
  IF \E k \in 1..Len(d) : d[k].voce_canonica = key
  THEN LET k == CHOOSE k \in 1..Len(d) : d[k].voce_canonica = key IN d[k].valore
  ELSE 0

\* CASO 2: every child is added, the consolidato fiscale child is subtracted
RECURSIVE ImposteTotal(_)
ImposteTotal(d) ==
  IF d = <<>> THEN 0
  ELSE (IF d[1].voce_canonica = "Proventi (oneri) da adesione al regime di consolidato fiscale" THEN -d[1].valore ELSE d[1].valore)
       + ImposteTotal(Tail(d))

\* Variant: CASO 3 adds the write-downs instead of subtracting them
CalculateSpecialTotals_AddSvalutazioni(item, canonical_name, children_sum) ==
  LET dettaglio == item.dettaglio
  IN CASE canonical_name = "C) Proventi e oneri finanziari" ->
            ValoreOf(dettaglio, "15) Proventi da partecipazioni") + ValoreOf(dettaglio, "16) Altri proventi finanziari")
              - ValoreOf(dettaglio, "17) Interessi e altri oneri finanziari") + ValoreOf(dettaglio, "17-bis) Utile (perdita) su cambi")
       [] canonical_name = "Imposte sul reddito dell'esercizio" -> ImposteTotal(dettaglio)
       [] canonical_name = "D) Rettifiche di valore di attivita finanziarie" ->
            ValoreOf(dettaglio, "Rivalutazioni") + ValoreOf(dettaglio, "Svalutazioni")
       [] OTHER -> children_sum

\* DataValidator._calculate_special_totals
_calculate_special_totals(item, canonical_name, children_sum) ==
  LET dettaglio == item.dettaglio
  IN CASE canonical_name = "C) Proventi e oneri finanziari" ->
            ValoreOf(dettaglio, "15) Proventi da partecipazioni") + ValoreOf(dettaglio, "16) Altri proventi finanziari")
              - ValoreOf(dettaglio, "17) Interessi e altri oneri finanziari") + ValoreOf(dettaglio, "17-bis) Utile (perdita) su cambi")
       [] canonical_name = "Imposte sul reddito dell'esercizio" -> ImposteTotal(dettaglio)
       [] canonical_name = "D) Rettifiche di valore di attivita finanziarie" ->
            ValoreOf(dettaglio, "Rivalutazioni") - ValoreOf(dettaglio, "Svalutazioni")
       [] OTHER -> children_sum

\* Variant: the 'enriched_from_ni' flag is not looked at
RECURSIVE RecursiveRecalculateNode_IgnoreFlag(_, _, _)
RecursiveRecalculateNode_IgnoreFlag(node, k, parent_is_map) ==
  IF k > Len(node) THEN node
  ELSE LET item == node[k]
       IN IF item.dettaglio # <<>>
          THEN LET item2 == [item EXCEPT !.dettaglio =
                               RecursiveRecalculateNode_IgnoreFlag(item.dettaglio, 1, FALSE)]
                   patrimonio_terzi ==
                     IF item.voce_canonica = "A) Patrimonio netto" /\ parent_is_map
                     THEN ValoreOf(node, "Patrimonio netto di terzi")
                     ELSE 0
               IN RecursiveRecalculateNode_IgnoreFlag(
                    [node EXCEPT ![k] =
                       [item2 EXCEPT !.valore =
                          _calculate_special_totals(item2, item.voce_canonica,
                                                    SumValore(item2.dettaglio))
                          + patrimonio_terzi]],
                    k + 1, parent_is_map)
          ELSE RecursiveRecalculateNode_IgnoreFlag(node, k + 1, parent_is_map)

\* DataValidator._recursive_recalculate_node over the items k..Len(node) of
\* the map 'node', which is updated in place.  parent_is_map tells that
\* parent_node is the map being walked (passivo, conto_economico), so that
\* parent_node.get('Patrimonio netto di terzi') finds a sibling; an item dict
\* or the stato_patrimoniale dict passed as parent_node has no such key.
RECURSIVE _recursive_recalculate_node(_, _, _)
_recursive_recalculate_node(node, k, parent_is_map) ==
  IF k > Len(node) THEN node
  ELSE LET item == node[k]
       IN IF item.dettaglio # <<>> /\ ~item.enriched_from_ni
          THEN LET item2 == [item EXCEPT !.dettaglio =
                               _recursive_recalculate_node(item.dettaglio, 1, FALSE)]
                   children_sum == SumValore(item2.dettaglio)
                   calculated_value ==
                     _calculate_special_totals(item2, item.voce_canonica, children_sum)
                   patrimonio_terzi ==
                     IF item.voce_canonica = "A) Patrimonio netto" /\ parent_is_map
                     THEN ValoreOf(node, "Patrimonio netto di terzi")
                     ELSE 0
               IN _recursive_recalculate_node(
                    [node EXCEPT ![k] =
                       [item2 EXCEPT !.valore = calculated_value + patrimonio_terzi]],
                    k + 1, parent_is_map)
          ELSE _recursive_recalculate_node(node, k + 1, parent_is_map)

\* DataValidator._recursive_recalculate_totals
_recursive_recalculate_totals(d) ==
  [attivo          |-> _recursive_recalculate_node(d.attivo, 1, FALSE),
   passivo         |-> _recursive_recalculate_node(d.passivo, 1, TRUE),
   conto_economico |-> _recursive_recalculate_node(d.conto_economico, 1, TRUE)]

InitV ==
  LET
       \* A section node after an accepted integration of one supplement row
       Enriched(section, amounts) ==
         LET row  == [match |-> [patterns |-> {1}, ratio |-> <<>>, wratio |-> <<>>],
                      amounts |-> amounts]
             item == NITableData(enrichment_rules[section], 1, 1, row)
         IN _integrate_ni_data((section :> Leaf(section, 0)), section, <<item>>).data_map[section]
       DebitiNodes ==
         { Node("D) Debiti", 700, <<Leaf("Debiti verso banche", 300), Leaf("Debiti verso fornitori", 500)>>) }
         \cup { Enriched("D) Debiti", a) : a \in { am \in RowAmounts : am.total = 10000 } }
       PatrimonioNettoNodes ==
         { Node("A) Patrimonio netto", v, <<Leaf("I - Capitale", c), Leaf("IX - Utile (perdita) dell'esercizio", 50)>>) :
             v \in {0, 900}, c \in {100, 200} }
         \cup { Leaf("A) Patrimonio netto", v) : v \in {0, 900} }
       \* <<>> when the document has no third-party equity line
       TerziNodes ==
         { <<>> }
         \cup { <<Leaf("Patrimonio netto di terzi", t)>> : t \in {0, 30} }
         \cup { <<Node("Patrimonio netto di terzi", t,
                       <<Leaf("Capitale e riserve di terzi", 20), Leaf("Utile (perdita) di terzi", u)>>)>> :
                  t \in {0, 30}, u \in {0, 5} }
       \* The schema decides which of the two equity keys comes first
       PassivoTrees ==
         { <<pn>> \o terzi \o <<deb>> :
             pn \in PatrimonioNettoNodes, terzi \in TerziNodes, deb \in DebitiNodes }
         \cup { terzi \o <<pn, deb>> :
             pn \in PatrimonioNettoNodes, terzi \in TerziNodes, deb \in DebitiNodes }
       AttivoTrees ==
         { <<Node("C) Attivo circolante", a,
                  <<Node("II - Crediti", b, <<Leaf("Crediti verso clienti", x)>>)>>)>> :
             a \in {0, 40}, b \in {0, 70}, x \in {40, 60} }
         \cup { <<Node("C) Attivo circolante", a, <<Enriched("II - Crediti", am)>>)>> :
                  a \in {0, 40}, am \in { am \in RowAmounts : am.total = 10000 } }
       ContoEconomicoTrees ==
         { <<Node("C) Proventi e oneri finanziari", 0,
                  <<Leaf("15) Proventi da partecipazioni", p), Leaf("16) Altri proventi finanziari", 5),
                    Leaf("17) Interessi e altri oneri finanziari", q), Leaf("17-bis) Utile (perdita) su cambi", -2)>>),
             Node("Imposte sul reddito dell'esercizio", 0,
                  <<Leaf("Imposte correnti", 30), Leaf("Proventi (oneri) da adesione al regime di consolidato fiscale", z)>>),
             Node("D) Rettifiche di valore di attivita finanziarie", 0,
                  <<Leaf("Rivalutazioni", 9), Leaf("Svalutazioni", r)>>)>> :
             p \in {10, 20}, q \in {3, 8}, z \in {0, 4}, r \in {0, 2} }
  IN  /\ IdleU
      /\ IdleD
      /\ IdleH
      /\ IdleT
      /\ IdleE
      /\ IdleM
      /\ data \in [attivo : AttivoTrees, passivo : PassivoTrees,
                   conto_economico : ContoEconomicoTrees]
      /\ n_recalc = 0
      /\ is_consolidated_format = FALSE
      /\ validations = NoValidations

\* perform_validations starts with the recalculation; the editor runs it again
RecalculateTotals ==
  /\ n_recalc < MaxRecalc
  /\ data' = _recursive_recalculate_totals(data)
  /\ n_recalc' = n_recalc + 1
  /\ UNCHANGED <<is_consolidated_format, validations, hvars, tvars, evars, mvars, dvars, uvars>>

NextV == RecalculateTotals

SpecV == InitV /\ [][NextV]_vars

-----------------------------------------------------------------------------
(* Reclassifier: mapping of the flattened statement onto buckets *)

\* A row of the mapping template
TemplateRow(voce, map_to, operation, genitore) ==
  [voce |-> voce, map_to |-> map_to, operation |-> operation, genitore |-> genitore]

\* _load_mapping_configuration, lines 195-203: every rule gets the list of
\* the rules that name it as 'Genitore Canonico', in template order
_load_mapping_configuration(template) ==
  LET voci == { template[k].voce : k \in 1..Len(template) }
      ChildrenOf(parent) ==
        LET RECURSIVE Collect(_)
            Collect(k) ==
              IF k > Len(template) THEN <<>>
              ELSE (IF template[k].genitore = parent /\ parent \in voci
                    THEN <<template[k].voce>> ELSE <<>>) \o Collect(k + 1)
        IN Collect(1)
  IN [k \in 1..Len(template) |->
        [voce      |-> template[k].voce,
         map_to    |-> template[k].map_to,
         operation |-> template[k].operation,
         genitore  |-> template[k].genitore,
         children  |-> ChildrenOf(template[k].voce)]]

AuditLine(voce, value, operation) ==
  [voce |-> voce, value |-> value, operation |-> operation]

\* Variant: a parent is mapped even though one of its children is present
MapRule_IgnoreChildren(acc, rule, flat) ==
  IF rule.map_to = "<NaN>" \/ rule.map_to = "NON APPLICABILE" THEN acc
  ELSE IF rule.voce \notin DOMAIN flat THEN acc
  ELSE LET value == flat[rule.voce]
       IN IF rule.operation \notin {"+", "-"} THEN acc
          ELSE LET map_to == rule.map_to
                   old == IF map_to \in DOMAIN acc.totals THEN acc.totals[map_to] ELSE 0
                   lines == IF map_to \in DOMAIN acc.details
                            THEN acc.details[map_to] ELSE <<>>
               IN [totals  |-> (map_to :> (IF rule.operation = "+"
                                           THEN old + value ELSE old - value))
                                 @@ acc.totals,
                   details |-> (map_to :> Append(lines,
                                   AuditLine(rule.voce, value, rule.operation)))
                                 @@ acc.details]

\* The body of the loop over the mapping rules (lines 289-327)
MapRule(acc, rule, flat) ==
  IF rule.map_to = "<NaN>" \/ rule.map_to = "NON APPLICABILE" THEN acc
  ELSE IF rule.voce \notin DOMAIN flat THEN acc
  ELSE IF \E c \in 1..Len(rule.children) : rule.children[c] \in DOMAIN flat THEN acc
  ELSE LET value == flat[rule.voce]
       IN IF rule.operation \notin {"+", "-"} THEN acc
          ELSE LET map_to == rule.map_to
                   old == IF map_to \in DOMAIN acc.totals THEN acc.totals[map_to] ELSE 0
                   lines == IF map_to \in DOMAIN acc.details
                            THEN acc.details[map_to] ELSE <<>>
               IN [totals  |-> (map_to :> (IF rule.operation = "+"
                                           THEN old + value ELSE old - value))
                                 @@ acc.totals,
                   details |-> (map_to :> Append(lines,
                                   AuditLine(rule.voce, value, rule.operation)))
                                 @@ acc.details]

RECURSIVE MapRules(_, _, _, _)
MapRules(acc, rules, k, flat) ==
  IF k > Len(rules) THEN acc
  ELSE MapRules(MapRule(acc, rules[k], flat), rules, k + 1, flat)

\* FinancialReclassifier._map_financial_items
_map_financial_items(rules, flat) ==
  LET result == MapRules([totals |-> <<>>, details |-> <<>>], rules, 1, flat)
  IN [reclassified_totals  |-> result.totals,
      reclassified_details |-> result.details,
      orphan_voices        |-> Cardinality(DOMAIN flat
                                 \ { rules[k].voce : k \in 1..Len(rules) })]

InitM ==
  LET
       MapTargets == {"<NaN>", "NON APPLICABILE", "TOT CURR. ASS.", "Trade Debtors"}
       Operations == {"+", "-", "<NaN>"}
       \* The template sheets: three rows in sheet order; the last row names a
       \* parent that is a rule or one that is not
       Templates ==
         { << TemplateRow("C) Attivo circolante", t1, o1, "<NaN>"),
              TemplateRow("II - Crediti", t2, o2, "C) Attivo circolante"),
              TemplateRow("Crediti verso clienti", t3, o3, g3) >> :
             t1 \in MapTargets, o1 \in Operations,
             t2 \in MapTargets, o2 \in Operations,
             t3 \in MapTargets, o3 \in Operations,
             g3 \in {"II - Crediti", "B) Immobilizzazioni"} }
       \* The flattened statements: any subset of the names, each with its value
       StatementValues ==
         ("C) Attivo circolante" :> 700) @@ ("II - Crediti" :> 400) @@ ("Crediti verso clienti" :> 300)
           @@ ("Voce senza regola" :> 50)
       FlatDatas ==
         { [v \in present |-> StatementValues[v]] : present \in SUBSET DOMAIN StatementValues }
  IN  /\ IdleU
      /\ IdleD
      /\ IdleH
      /\ IdleT
      /\ IdleE
      /\ IdleV
      /\ mapping_rules \in { _load_mapping_configuration(t) : t \in Templates }
      /\ rc_flat_data \in FlatDatas
      /\ reclassified_totals = <<>>
      /\ reclassified_details = <<>>
      /\ mphase = "ready"
      /\ IdleR

MapFinancialItems ==
  /\ mphase = "ready"
  /\ LET result == _map_financial_items(mapping_rules, rc_flat_data)
     IN /\ reclassified_totals' = result.reclassified_totals
        /\ reclassified_details' = result.reclassified_details
  /\ mphase' = "mapped"
  /\ UNCHANGED <<mapping_rules, rc_flat_data, final_data, final_details,
                 balance_sheet_validation, hvars, tvars, evars, vvars, dvars, uvars>>

NextM == MapFinancialItems

SpecM == InitM /\ [][NextM]_vars

-----------------------------------------------------------------------------
(* Validator: consistency checks and overall status *)

\* consolidated_labels, in the order they are tried (lines 121-126)
consolidated_labels ==
  << "Utile (perdita) consolidati dell'esercizio",
     "21) Utile (perdita) consolidati dell'esercizio",
     "Utile consolidato dell'esercizio",
     "Perdita consolidata dell'esercizio" >>

\* Variant: the third-party equity key is summed like every other key
CalculateSectionTotal_IncludeTerzi(section) ==
  SumValore(section)

\* DataValidator._calculate_section_total
_calculate_section_total(section) ==
  SumValore(SelectSeq(section, LAMBDA item : item.voce_canonica # "Patrimonio netto di terzi"))

\* DataValidator._find_item_in_structure on a map: depth first in key order;
\* <<item>> when found, <<>> when not
RECURSIVE _find_item_in_structure(_, _)
_find_item_in_structure(node, canonical_name) ==
  IF node = <<>> THEN <<>>
  ELSE IF node[1].voce_canonica = canonical_name THEN <<node[1]>>
  ELSE LET found == _find_item_in_structure(node[1].dettaglio, canonical_name)
       IN IF found # <<>> THEN found
          ELSE _find_item_in_structure(Tail(node), canonical_name)

\* The same search started at the stato_patrimoniale dictionary, whose two
\* keys are searched in the order attivo, passivo
FindInStatoPatrimoniale(d, canonical_name) ==
  LET found == _find_item_in_structure(d.attivo, canonical_name)
  IN IF found # <<>> THEN found
     ELSE _find_item_in_structure(d.passivo, canonical_name)

\* Lines 118-137: the profit node of the income statement
RECURSIVE FirstLabelFound(_, _)
FirstLabelFound(ce, labels) ==
  IF labels = <<>> THEN <<>>
  ELSE LET found == _find_item_in_structure(ce, labels[1])
       IN IF found # <<>> THEN found ELSE FirstLabelFound(ce, Tail(labels))

FindUtileCE(ce, is_consolidated) ==
  LET found == IF is_consolidated THEN FirstLabelFound(ce, consolidated_labels) ELSE <<>>
  IN IF found # <<>> THEN found ELSE _find_item_in_structure(ce, "Utile (perdita) dell'esercizio")

\* Variant: the third-party profit is added for every document
ProfitBalanceSide_AlwaysTerzi(d, val_sp, is_consolidated) ==
  LET utile_terzi_node == FindInStatoPatrimoniale(d, "Utile (perdita) di terzi")
      val_terzi == IF utile_terzi_node = <<>> THEN 0 ELSE utile_terzi_node[1].valore
  IN [val_terzi |-> val_terzi, val_sp_consolidated |-> val_sp + val_terzi]

\* Lines 152-165: the balance-sheet side of the profit comparison
ProfitBalanceSide(d, val_sp, is_consolidated) ==
  IF is_consolidated
  THEN LET utile_terzi_node == FindInStatoPatrimoniale(d, "Utile (perdita) di terzi")
           val_terzi == IF utile_terzi_node = <<>> THEN 0 ELSE utile_terzi_node[1].valore
       IN [val_terzi |-> val_terzi,
           val_sp_consolidated |-> IF val_terzi # 0 THEN val_sp + val_terzi ELSE val_sp]
  ELSE [val_terzi |-> 0, val_sp_consolidated |-> val_sp]

\* Variant: a check passed with tolerance does not lower the overall status
OverallStatus_IgnoreTolerance(checks_failed, statuses) ==
  IF checks_failed THEN "failed" ELSE "success"

\* Lines 190-198: the overall status from the flag and the check statuses
OverallStatus(checks_failed, statuses) ==
  IF checks_failed THEN "failed"
  ELSE IF "success_with_tolerance" \in statuses THEN "success_with_tolerance"
  ELSE "success"

\* DataValidator.perform_validations on the recalculated data d
ConsistencyChecks(settings, d, is_consolidated) ==
  LET tot_attivo  == _calculate_section_total(d.attivo)
      tot_passivo == _calculate_section_total(d.passivo)
      balance_done == tot_attivo > 0 \/ tot_passivo > 0
      balance == _check_tolerance(settings, tot_attivo, tot_passivo, tot_attivo)
      attivo_vs_passivo ==
        IF balance_done
        THEN [present |-> TRUE, status |-> balance.status,
              val1 |-> tot_attivo, val2 |-> tot_passivo,
              discrepanza |-> balance.diff, utile_di_terzi |-> 0]
        ELSE NoCheck
      utile_ce_node == FindUtileCE(d.conto_economico, is_consolidated)
      utile_sp_node == FindInStatoPatrimoniale(d, "IX - Utile (perdita) dell'esercizio")
      profit_done == utile_ce_node # <<>> /\ utile_sp_node # <<>>
      val_ce == utile_ce_node[1].valore
      val_sp == utile_sp_node[1].valore
      side == ProfitBalanceSide(d, val_sp, is_consolidated)
      profit == _check_tolerance(settings, val_ce, side.val_sp_consolidated, val_ce)
      coerenza_utile_esercizio ==
        IF profit_done
        THEN [present |-> TRUE, status |-> profit.status,
              val1 |-> val_ce, val2 |-> val_sp,
              discrepanza |-> profit.diff, utile_di_terzi |-> side.val_terzi]
        ELSE NoCheck
      checks_failed ==
        \/ ~balance_done
        \/ balance_done /\ balance.status = "failed"
        \/ ~profit_done
        \/ profit_done /\ profit.status = "failed"
      statuses == { c.status : c \in { x \in {attivo_vs_passivo, coerenza_utile_esercizio} :
                                         x.present } }
  IN [summary |-> OverallStatus(checks_failed, statuses),
      missing_message |-> ~balance_done,
      attivo_vs_passivo |-> attivo_vs_passivo,
      coerenza_utile_esercizio |-> coerenza_utile_esercizio]

perform_validations(settings, d, is_consolidated) ==
  LET recalculated == _recursive_recalculate_totals(d)
  IN [data |-> recalculated,
      validations |-> ConsistencyChecks(settings, recalculated, is_consolidated)]

InitP ==
  LET
       \* Statements for the checks (cents): assets that equal the liabilities,
       \* differ within tolerance, differ beyond it, are all zero, or are absent
       CheckedAttivo ==
         { <<Leaf("B) Immobilizzazioni", f), Leaf("C) Attivo circolante", 100000)>> :
             f \in {100000, 100900, 200000} }
         \cup { <<Leaf("C) Attivo circolante", 0)>>, <<>> }
       CheckedPassivo ==
         { <<Node("A) Patrimonio netto", 0, <<Leaf("I - Capitale", c)>> \o utile)>> \o terzi
             \o <<Leaf("D) Debiti", deb)>> :
             c \in {100000, 0},
             utile \in { <<>> } \cup { <<Leaf("IX - Utile (perdita) dell'esercizio", u)>> : u \in {50000, 50300, 0} },
             terzi \in { <<>> } \cup
                       { <<Node("Patrimonio netto di terzi", 0,
                                <<Leaf("Capitale e riserve di terzi", 0), Leaf("Utile (perdita) di terzi", ut)>>)>> :
                           ut \in {0, 300} },
             deb \in {50000, 0} }
         \* Equity with or without children next to a third-party equity line,
         \* in either order of the two keys
         \cup UNION { { <<pn, terzi, Leaf("D) Debiti", 50000)>>,
                        <<terzi, pn, Leaf("D) Debiti", 50000)>> } :
                pn \in { Leaf("A) Patrimonio netto", 150000),
                         Node("A) Patrimonio netto", 0, <<Leaf("I - Capitale", 150000)>>) },
                terzi \in { Leaf("Patrimonio netto di terzi", 300),
                            Node("Patrimonio netto di terzi", 200,
                                 <<Leaf("Capitale e riserve di terzi", 300)>>) } }
       CheckedContoEconomico ==
         { <<Leaf("A) Valore della produzione", 900000)>> \o std \o cons :
             std  \in { <<>> } \cup { <<Leaf("Utile (perdita) dell'esercizio", v)>> : v \in {50000, 51000} },
             cons \in { <<>>, <<Leaf("21) Utile (perdita) consolidati dell'esercizio", 50300)>> } }
  IN  /\ IdleU
      /\ IdleD
      /\ IdleH
      /\ IdleE
      /\ IdleM
      /\ validation_settings \in ValidationSettings
      /\ tol_args = [val1 |-> 0, val2 |-> 0, ref_val |-> 0]
      /\ tol_result = NoToleranceResult
      /\ data \in [attivo : CheckedAttivo, passivo : CheckedPassivo,
                   conto_economico : CheckedContoEconomico]
      /\ n_recalc = 0
      /\ is_consolidated_format \in BOOLEAN
      /\ validations = NoValidations

PerformValidations ==
  /\ validations = NoValidations
  /\ LET result == perform_validations(validation_settings, data, is_consolidated_format)
     IN /\ data' = result.data
        /\ validations' = result.validations
  /\ n_recalc' = n_recalc + 1
  /\ UNCHANGED <<is_consolidated_format, hvars, tvars, evars, mvars, dvars, uvars>>

NextP == PerformValidations

SpecP == InitP /\ [][NextP]_vars

-----------------------------------------------------------------------------
(* Reclassifier: cascading calculations and balance validation *)

\* Validation tolerances of the reclassifier: 2,000 euro (cents) and 2%
RcToleranceMinimum == 200000
RcTolerancePct == 2

depreciation_items ==
  { "Ammortamento delle immobilizzazioni immateriali",
    "Ammortamento delle immobilizzazioni materiali",
    "Altre svalutazioni delle immobilizzazioni",
    "Svalutazioni dei crediti e delle disponibilita liquide" }

\* dict.get(key, 0.0) and dict[key] = value
Get(d, key) == IF key \in DOMAIN d THEN d[key] ELSE 0
Put(d, key, value) == (key :> value) @@ d

RECURSIVE SumOver(_, _)
SumOver(d, keys) ==
  IF keys = {} THEN 0
  ELSE LET k == CHOOSE k \in keys : TRUE IN Get(d, k) + SumOver(d, keys \ {k})

\* Variant: the gross profit is not carried into the net operating profit
PnLCascade_NetOpWithoutGross(mapped_totals, flat) ==
  LET total_sales == Get(mapped_totals, "Total Sales")
      gross_profit_final == Get(mapped_totals, "GROSS PROFIT") + total_sales
      net_op_profit_final == Get(mapped_totals, "NET OP. PROFIT")
      pre_tax_profit_final ==
        net_op_profit_final + Get(mapped_totals, "Interest Received")
          - Get(mapped_totals, "Interest Paid") + Get(mapped_totals, "Other Income/Expense")
  IN Put(Put(Put(Put(Put(Put(Put(mapped_totals,
       "GROSS PROFIT", gross_profit_final),
       "NET OP. PROFIT", net_op_profit_final),
       "Cost of Sales", total_sales - gross_profit_final),
       "S G & A", gross_profit_final - net_op_profit_final),
       "PRE TAX PROFIT", pre_tax_profit_final),
       "PROFIT AFTER TAX", pre_tax_profit_final - Get(mapped_totals, "Taxation")),
       "Deprecation", SumOver(flat, depreciation_items))

\* _perform_cascading_calculations, P&L section (lines 361-394)
PnLCascade(mapped_totals, flat) ==
  LET total_sales == Get(mapped_totals, "Total Sales")
      gross_profit_final == Get(mapped_totals, "GROSS PROFIT") + total_sales
      net_op_profit_final == Get(mapped_totals, "NET OP. PROFIT") + gross_profit_final
      pre_tax_profit_final ==
        net_op_profit_final + Get(mapped_totals, "Interest Received")
          - Get(mapped_totals, "Interest Paid") + Get(mapped_totals, "Other Income/Expense")
  IN Put(Put(Put(Put(Put(Put(Put(mapped_totals,
       "GROSS PROFIT", gross_profit_final),
       "NET OP. PROFIT", net_op_profit_final),
       "Cost of Sales", total_sales - gross_profit_final),
       "S G & A", gross_profit_final - net_op_profit_final),
       "PRE TAX PROFIT", pre_tax_profit_final),
       "PROFIT AFTER TAX", pre_tax_profit_final - Get(mapped_totals, "Taxation")),
       "Deprecation", SumOver(flat, depreciation_items))

\* _perform_cascading_calculations, assets section (lines 408-430)
AssetsCascade(mapped_totals) ==
  LET cash_equiv == Get(mapped_totals, "Cash & Equivalent")
      trade_debtors == Get(mapped_totals, "Trade Debtors")
      quick_assets_final == cash_equiv + trade_debtors
      stock_wip == Get(mapped_totals, "Stock & Work in Progr.")
      tot_curr_ass_final == Get(mapped_totals, "TOT CURR. ASS.") + quick_assets_final + stock_wip
      tangible_fixed == Get(mapped_totals, "Tangible Fxed Assets")
      intangibles == Get(mapped_totals, "Intangibles")
      goodwill == Get(mapped_totals, "Goodwill")
      tot_fix_ass_final ==
        Get(mapped_totals, "TOTAL FIX. ASS.") + tangible_fixed + intangibles + goodwill
  IN Put(Put(Put(Put(Put(Put(mapped_totals,
       "Quick Assets", quick_assets_final),
       "TOT CURR. ASS.", tot_curr_ass_final),
       "Other Current", tot_curr_ass_final - stock_wip - quick_assets_final),
       "TOTAL FIX. ASS.", tot_fix_ass_final),
       "Financial/Other fix Ass", tot_fix_ass_final - tangible_fixed - intangibles - goodwill),
       "BAL. SHEET TOT", tot_curr_ass_final + tot_fix_ass_final)

\* _perform_cascading_calculations, liabilities section (lines 435-467)
LiabilitiesCascade(mapped_totals) ==
  LET total_short_term_debt_final ==
        Get(mapped_totals, "Overdrafts & STD") + Get(mapped_totals, "Current Portion LTD")
      trade_creditors == Get(mapped_totals, "Trade Creditors")
      tot_curr_liab_final ==
        Get(mapped_totals, "TOT CURR. LIAB.") + total_short_term_debt_final + trade_creditors
      total_ltd == Get(mapped_totals, "Total Long Term Debt")
      provisions == Get(mapped_totals, "Provisions")
      total_lt_liab_final == Get(mapped_totals, "TOTAL LT LIAB") + total_ltd + provisions
      tot_net_worth_final ==
        Get(mapped_totals, "Share Holders Funds") + Get(mapped_totals, "Ret'd Earnings/Resv's")
  IN Put(Put(Put(Put(Put(Put(Put(Put(mapped_totals,
       "Total Short Term Debt", total_short_term_debt_final),
       "TOT CURR. LIAB.", tot_curr_liab_final),
       "Other Current", tot_curr_liab_final - total_short_term_debt_final - trade_creditors),
       "TOTAL LT LIAB", total_lt_liab_final),
       "Sub. Loan/Oth. LT", total_lt_liab_final - total_ltd - provisions),
       "Liabs less net worth", tot_curr_liab_final + total_lt_liab_final),
       "TOT NET WORTH", tot_net_worth_final),
       "BAL. SHEET TOT", tot_curr_liab_final + total_lt_liab_final + tot_net_worth_final)

\* The audit entries written by the cascades: a line naming the calculation
\* and its result
CascadeLine(value) == AuditLine("Cascading calculation", value, "=")

PnLDetails(mapped_totals, mapped_details, pnl_val) ==
  LET gross == IF Get(mapped_totals, "GROSS PROFIT") # 0 \/ Get(mapped_totals, "Total Sales") # 0
               THEN Put(mapped_details, "GROSS PROFIT",
                        Append(IF "GROSS PROFIT" \in DOMAIN mapped_details
                               THEN mapped_details["GROSS PROFIT"] ELSE <<>>,
                               CascadeLine(pnl_val["GROSS PROFIT"])))
               ELSE mapped_details
  IN Put(Put(gross, "Cost of Sales", <<CascadeLine(pnl_val["Cost of Sales"])>>),
         "S G & A", <<CascadeLine(pnl_val["S G & A"])>>)

\* FinancialReclassifier._perform_cascading_calculations
_perform_cascading_calculations(mapped_totals, mapped_details, flat) ==
  LET pnl_val == PnLCascade(mapped_totals, flat)
      assets_val == AssetsCascade(mapped_totals)
      liab_val == LiabilitiesCascade(mapped_totals)
  IN [final_data |->
        [PnL |-> pnl_val, ASSETS |-> assets_val, LIABILITIES |-> liab_val],
      final_details |->
        [PnL |-> PnLDetails(mapped_totals, mapped_details, pnl_val),
         ASSETS |-> Put(mapped_details, "Quick Assets",
                        <<CascadeLine(assets_val["Quick Assets"])>>),
         LIABILITIES |-> Put(mapped_details, "TOT NET WORTH",
                             <<CascadeLine(liab_val["TOT NET WORTH"])>>)]]

\* Variant: the percentage tolerance is taken of the smaller total
ValidateBalanceSheetEquilibrium_SmallerSide(fd) ==
  LET assets_total == Get(fd.ASSETS, "BAL. SHEET TOT")
      liabilities_total == Get(fd.LIABILITIES, "BAL. SHEET TOT")
      difference == Abs(assets_total - liabilities_total)
      reference_value == IF assets_total <= liabilities_total
                         THEN assets_total ELSE liabilities_total
      result(status, tolerance_used) ==
        [status |-> status, assets_total |-> assets_total,
         liabilities_total |-> liabilities_total, difference |-> difference,
         tolerance_used |-> tolerance_used]
  IN IF difference <= RcToleranceMinimum
     THEN result("success", RcToleranceMinimum * PctDen)
     ELSE IF reference_value > 0
          THEN IF difference * PctDen <= reference_value * RcTolerancePct
               THEN result("success_with_tolerance", reference_value * RcTolerancePct)
               ELSE result("failed", reference_value * RcTolerancePct)
          ELSE result("failed", RcToleranceMinimum * PctDen)

\* FinancialReclassifier._validate_balance_sheet_equilibrium; tolerance_used
\* is kept multiplied by PctDen
_validate_balance_sheet_equilibrium(fd) ==
  LET assets_total == Get(fd.ASSETS, "BAL. SHEET TOT")
      liabilities_total == Get(fd.LIABILITIES, "BAL. SHEET TOT")
      difference == Abs(assets_total - liabilities_total)
      reference_value == Max(assets_total, liabilities_total)
      result(status, tolerance_used) ==
        [status |-> status, assets_total |-> assets_total,
         liabilities_total |-> liabilities_total, difference |-> difference,
         tolerance_used |-> tolerance_used]
  IN IF difference <= RcToleranceMinimum
     THEN result("success", RcToleranceMinimum * PctDen)
     ELSE IF reference_value > 0
          THEN IF difference * PctDen <= reference_value * RcTolerancePct
               THEN result("success_with_tolerance", reference_value * RcTolerancePct)
               ELSE result("failed", reference_value * RcTolerancePct)
          ELSE result("failed", RcToleranceMinimum * PctDen)

InitR ==
  LET
       \* Mapped totals (cents): a bucket is absent or carries the amount mapped on it
       Optional(bucket, values) == { <<>> } \cup { (bucket :> v) : v \in values }
       PnLMappedTotals ==
         { a @@ b @@ c @@ d @@ e @@ f @@ g @@ h :
             a \in Optional("Total Sales", {100000}),
             b \in Optional("GROSS PROFIT", {-60000}),
             c \in Optional("NET OP. PROFIT", {-15000}),
             d \in Optional("Interest Received", {500}),
             e \in Optional("Interest Paid", {2000}),
             f \in Optional("Other Income/Expense", {-700}),
             g \in Optional("Taxation", {3000}),
             h \in Optional("Cost of Sales", {777}) }
       BalanceMappedTotals ==
         { a @@ b @@ c @@ d @@ e @@ f :
             a \in Optional("TOT CURR. ASS.", {10000000}),
             b \in Optional("Trade Debtors", {5000000}),
             c \in Optional("Share Holders Funds",
                            {15000000, 15150000, 15250000, 15305000, 16000000, -300000}),
             d \in Optional("TOT CURR. LIAB.", {100000}),
             e \in Optional("TOTAL LT LIAB", {40000}),
             f \in Optional("TOT NET WORTH", {700000}) }
       MappedDetailsOf(totals) ==
         [b \in DOMAIN totals |-> <<AuditLine("Voce senza regola", totals[b], "+")>>]
  IN  /\ IdleU
      /\ IdleD
      /\ IdleH
      /\ IdleT
      /\ IdleE
      /\ IdleV
      /\ mapping_rules = <<>>
      /\ rc_flat_data \in
           { <<>>, ("Ammortamento delle immobilizzazioni materiali" :> 4000)
                     @@ ("Crediti verso clienti" :> 300) }
      /\ \E p \in PnLMappedTotals, b \in BalanceMappedTotals :
           /\ reclassified_totals = p @@ b
           /\ reclassified_details = MappedDetailsOf(p @@ b)
      /\ mphase = "mapped"
      /\ IdleR

PerformCascadingCalculations ==
  /\ mphase = "mapped"
  /\ LET result == _perform_cascading_calculations(reclassified_totals,
                     reclassified_details, rc_flat_data)
     IN /\ final_data' = result.final_data
        /\ final_details' = result.final_details
  /\ mphase' = "cascaded"
  /\ UNCHANGED <<mapping_rules, rc_flat_data, reclassified_totals, reclassified_details,
                 balance_sheet_validation, hvars, tvars, evars, vvars, dvars, uvars>>

ValidateBalanceSheetEquilibrium ==
  /\ mphase = "cascaded"
  /\ balance_sheet_validation' = _validate_balance_sheet_equilibrium(final_data)
  /\ mphase' = "validated"
  /\ UNCHANGED <<mapping_rules, rc_flat_data, reclassified_totals, reclassified_details,
                 final_data, final_details, hvars, tvars, evars, vvars, dvars, uvars>>

NextR == PerformCascadingCalculations \/ ValidateBalanceSheetEquilibrium

SpecR == InitR /\ [][NextR]_vars

-----------------------------------------------------------------------------
(* Parser: the data map built from the item stream *)

\* Variant: every later non-zero item replaces the stored one
DataMapPut_LastNonZero(dm, item) ==
  LET key == item.voce_canonica
  IN IF key \notin DOMAIN dm \/ item.valore # 0
     THEN (key :> item) @@ dm
     ELSE dm

\* The body of the loop of _build_data_map (lines 516-526) for one item whose
\* children buffer has been deleted
DataMapPut(dm, item) ==
  LET key == item.voce_canonica
  IN IF key \notin DOMAIN dm \/ (item.valore # 0 /\ dm[key].valore = 0)
     THEN (key :> item) @@ dm
     ELSE dm

\* del item['_children_buffer']
WithoutBuffer(item) ==
  [item EXCEPT !.has_children_buffer = FALSE, !.children_buffer = <<>>]

RECURSIVE DataMapFrom(_, _, _)
DataMapFrom(items, k, dm) ==
  IF k > Len(items) THEN dm
  ELSE DataMapFrom(items, k + 1, DataMapPut(dm, WithoutBuffer(items[k])))

\* BilancioParser._build_data_map: the map, and the items as the loop leaves them
_build_data_map(items) ==
  [data_map |-> DataMapFrom(items, 1, <<>>),
   flat_data |-> [k \in 1..Len(items) |-> WithoutBuffer(items[k])]]

InitB ==
  LET
       \* Items of the stream handed over by _process_financial_items; one may still
       \* carry a children buffer
       StreamItems ==
         { [NewItem(voce, valore, "stato_patrimoniale") EXCEPT !.has_children_buffer = b,
                                         !.children_buffer = IF b THEN <<1>> ELSE <<>>] :
             voce \in {"II - Crediti", "Crediti verso clienti"}, valore \in ItemValues, b \in BOOLEAN }
       ItemStreams == UNION { [1..n -> StreamItems] : n \in 0..MaxItems }
  IN  /\ IdleU
      /\ IdleD
      /\ IdleT
      /\ IdleE
      /\ IdleV
      /\ IdleM
      /\ flat_data \in ItemStreams
      /\ parent_stack = <<>>
      /\ current_context = "<no context>"
      /\ is_abbreviated_format = FALSE
      /\ hphase = "done"

BuildDataMap ==
  /\ hphase = "done"
  /\ flat_data # <<>>
  /\ LET built == _build_data_map(flat_data)
     IN /\ data_map' = built.data_map
        /\ flat_data' = built.flat_data
  /\ hphase' = "built"
  /\ UNCHANGED <<parent_stack, current_context, is_abbreviated_format,
                 section_name, table, ni_data, enrich_result, ephase,
                 tvars, vvars, mvars, dvars, uvars>>

NextB == BuildDataMap

SpecB == InitB /\ [][NextB]_vars

-----------------------------------------------------------------------------
(* Parser: one call of parse, and the retry loop of main *)

\* main.py, line 77
max_attempts == 3

\* FinancialReclassifier._flatten_financial_data: recursive_flatten over a
\* dictionary of item nodes; a later node of the same name overwrites
RECURSIVE recursive_flatten(_, _, _)
recursive_flatten(d, k, acc) ==
  IF k > Len(d) THEN acc
  ELSE LET node == d[k]
           own == (node.voce_canonica :> node.valore) @@ acc
       IN recursive_flatten(d, k + 1, recursive_flatten(node.dettaglio, 1, own))

\* The keys of the output are visited in insertion order; metadata, the
\* attached texts and the validations hold no item node
_flatten_financial_data(financial_data) ==
  recursive_flatten(financial_data.conto_economico, 1,
    recursive_flatten(financial_data.stato_patrimoniale.passivo, 1,
      recursive_flatten(financial_data.stato_patrimoniale.attivo, 1, <<>>)))

\* Variant: an empty flattened statement is reclassified like any other
ReclassifyFinancialData_NoEmptyCheck(rules, financial_data, raises) ==
  IF raises THEN ReclassificationResult(FALSE, <<>>, <<>>, NoBalanceValidation, 0)
  ELSE LET flat == _flatten_financial_data(financial_data)
           mapped == _map_financial_items(rules, flat)
           cascaded == _perform_cascading_calculations(
                         mapped.reclassified_totals, mapped.reclassified_details, flat)
       IN ReclassificationResult(TRUE, cascaded.final_data, cascaded.final_details,
            _validate_balance_sheet_equilibrium(cascaded.final_data),
            mapped.orphan_voices)

\* FinancialReclassifier.reclassify_financial_data; raises: some step of the
\* try block raises an exception
reclassify_financial_data(rules, financial_data, raises) ==
  IF raises THEN ReclassificationResult(FALSE, <<>>, <<>>, NoBalanceValidation, 0)
  ELSE LET flat == _flatten_financial_data(financial_data)
       IN IF DOMAIN flat = {}
          THEN ReclassificationResult(FALSE, <<>>, <<>>, NoBalanceValidation, 0)
          ELSE LET mapped == _map_financial_items(rules, flat)
                   cascaded == _perform_cascading_calculations(
                                 mapped.reclassified_totals, mapped.reclassified_details,
                                 flat)
               IN ReclassificationResult(TRUE, cascaded.final_data,
                    cascaded.final_details,
                    _validate_balance_sheet_equilibrium(cascaded.final_data),
                    mapped.orphan_voices)

\* BilancioParser._perform_financial_reclassification
_perform_financial_reclassification(rules, financial_data, configuration_valid, raises) ==
  IF ~configuration_valid
  THEN _create_failed_reclassification_result
  ELSE reclassify_financial_data(rules, financial_data, raises)

\* Step 10 of parse: the 'reclassification' entry of the output
ReclassificationEntry(rr) ==
  IF rr.success
  THEN [keys |-> {"success", "reclassified_data", "reclassified_details",
                  "balance_sheet_validation", "orphan_voices_count"},
        success |-> TRUE, error |-> "<none>",
        reclassified_data |-> rr.reclassified_data,
        reclassified_details |-> rr.reclassified_details,
        balance_sheet_validation |-> rr.balance_sheet_validation,
        orphan_voices_count |-> rr.orphan_voices_count]
  ELSE [keys |-> {"success", "error"},
        success |-> FALSE, error |-> "Reclassification process failed",
        reclassified_data |-> <<>>, reclassified_details |-> <<>>,
        balance_sheet_validation |-> NoBalanceValidation,
        orphan_voices_count |-> 0]

\* Step 7 of parse and the validations of step 8 written into the output
ValidatedOutput(doc, validated) ==
  [is_none |-> FALSE,
   keys |-> {"metadata", "stato_patrimoniale", "conto_economico",
             "testi_allegati", "validazioni"},
   metadata |-> [file_name |-> "bilancio.pdf",
                 is_consolidated_format |-> doc.is_consolidated_format],
   stato_patrimoniale |-> [attivo |-> validated.data.attivo,
                           passivo |-> validated.data.passivo],
   conto_economico |-> validated.data.conto_economico,
   validazioni |-> validated.validations,
   reclassification |-> NoneResult.reclassification]

\* Step 10 of parse: the output with its 'reclassification' entry
IntegratedOutput(output, rr) ==
  [output |-> [output EXCEPT !.keys = @ \cup {"reclassification"},
                             !.reclassification = ReclassificationEntry(rr)],
   reclassification_result |-> rr]

\* Steps 9 and 10 of parse
ReclassifiedOutput(rules, doc, output) ==
  IntegratedOutput(output,
    _perform_financial_reclassification(rules, output, doc.configuration_valid,
                                        doc.raises = "reclassification"))

\* Steps 7 to 10 of parse
ParseOutput(settings, rules, doc) ==
  ReclassifiedOutput(rules, doc,
    ValidatedOutput(doc, perform_validations(settings, doc.structured_data,
                                             doc.is_consolidated_format)))

\* Variant: an empty item list is not a reason to give up
Parse_NoItemsCheck(settings, rules, doc) ==
  IF doc.raises = "parse" \/ ~doc.tables
  THEN [output |-> NoneResult,
        reclassification_result |-> _create_failed_reclassification_result]
  ELSE ParseOutput(settings, rules, doc)

\* BilancioParser.parse; doc.raises = "parse": some step of the try block
\* outside the reclassification raises an exception
parse(settings, rules, doc) ==
  IF doc.raises = "parse" \/ ~doc.tables \/ ~doc.items
  THEN [output |-> NoneResult,
        reclassification_result |-> _create_failed_reclassification_result]
  ELSE ParseOutput(settings, rules, doc)

\* Variant: the loop goes on after a fully successful attempt
RetryIteration_NoBreak(first, final, n, current) ==
  LET first2 == IF n = 0 THEN current ELSE first
  IN IF current.is_none
     THEN [first_attempt_result |-> first2, final_result |-> final, break |-> FALSE]
     ELSE IF current.validazioni.summary = "success"
          THEN [first_attempt_result |-> first2, final_result |-> current,
                break |-> FALSE]
          ELSE [first_attempt_result |-> first2, final_result |-> final,
                break |-> FALSE]

\* main.py, lines 79-101: the body of the retry loop after parse returned
RetryIteration(first, final, n, current) ==
  LET first2 == IF n = 0 THEN current ELSE first
  IN IF current.is_none
     THEN [first_attempt_result |-> first2, final_result |-> final, break |-> FALSE]
     ELSE IF current.validazioni.summary = "success"
          THEN [first_attempt_result |-> first2, final_result |-> current,
                break |-> TRUE]
          ELSE [first_attempt_result |-> first2, final_result |-> final,
                break |-> FALSE]

InitD ==
  /\ IdleU
  /\ IdleH
  /\ IdleT
  /\ IdleE
  /\ IdleV
  /\ IdleM
  /\ document = NoDocument
  /\ current_result = NoneResult
  /\ reclassification_result = _create_failed_reclassification_result
  /\ first_attempt_result = NoneResult
  /\ final_result = NoneResult
  /\ attempt = 0
  /\ results = <<>>
  /\ lphase = "loop"

\* The rules the reclassifier has loaded
DocumentRules ==
  _load_mapping_configuration(
    << TemplateRow("C) Attivo circolante", "TOT CURR. ASS.", "+", "<NaN>"),
       TemplateRow("II - Crediti", "<NaN>", "<NaN>", "C) Attivo circolante"),
       TemplateRow("Crediti verso clienti", "Trade Debtors", "+", "II - Crediti") >>)

\* The extraction is not deterministic: every call may see another document.
\* Step 6 hands over statements whose checks succeed, succeed with tolerance
\* or fail, or a structure without any item.
Documents ==
  LET DocumentStatements ==
        { [attivo |-> << Leaf("B) Immobilizzazioni", f),
                         Leaf("C) Attivo circolante", 100000) >>,
           passivo |-> << Node("A) Patrimonio netto", 0,
                               << Leaf("I - Capitale", 100000),
                                  Leaf("IX - Utile (perdita) dell'esercizio", 50000) >>),
                          Leaf("D) Debiti", 50000) >>,
           conto_economico |-> << Leaf("A) Valore della produzione", 900000),
                                  Leaf("Utile (perdita) dell'esercizio", 50000) >>] :
            f \in {100000, 100900, 200000} }
        \cup { NoStatements }
  IN [tables : BOOLEAN, items : BOOLEAN,
      raises : {"none", "parse", "reclassification"},
      configuration_valid : BOOLEAN, is_consolidated_format : BOOLEAN,
      structured_data : DocumentStatements]

\* The assignments of one iteration, given what parse returned
AttemptStep(doc, parsed) ==
  LET next == RetryIteration(first_attempt_result, final_result, attempt, parsed.output)
  IN /\ document' = doc
     /\ current_result' = parsed.output
     /\ reclassification_result' = parsed.reclassification_result
     /\ first_attempt_result' = next.first_attempt_result
     /\ final_result' = next.final_result
     /\ results' = Append(results, parsed.output)
     /\ lphase' = IF next.break \/ attempt + 1 = max_attempts THEN "after" ELSE "loop"

\* One iteration of 'for attempt in range(max_attempts)'
ParseAttempt ==
  /\ lphase = "loop"
  /\ attempt < max_attempts
  /\ \E doc \in Documents : AttemptStep(doc, parse(ShippedSettings, DocumentRules, doc))
  /\ attempt' = attempt + 1
  /\ UNCHANGED <<hvars, tvars, evars, vvars, mvars, uvars>>

\* main.py, lines 103-105
UseFirstAttempt ==
  /\ lphase = "after"
  /\ final_result' = IF final_result.is_none THEN first_attempt_result ELSE final_result
  /\ lphase' = "done"
  /\ UNCHANGED <<document, current_result, reclassification_result,
                 first_attempt_result, attempt, results,
                 hvars, tvars, evars, vvars, mvars, uvars>>

NextD == ParseAttempt \/ UseFirstAttempt

SpecD == InitD /\ [][NextD]_vars

-----------------------------------------------------------------------------
(* Properties of the hierarchy builder *)

\* C1: after the end-of-document finalization the parent stack is empty,
\* every item that was ever pushed has been passed to
\* _process_completed_parent, and no item keeps a '_children_buffer'.
C1_NoDanglingParents ==
  hphase = "done" =>
    /\ parent_stack = <<>>
    /\ \A i \in 1..Len(flat_data) :
         /\ flat_data[i].pushed => flat_data[i].completed >= 1
         /\ ~flat_data[i].has_children_buffer

\* A finished document in which two parents were pushed, one below the
\* other, and a section change occurred
C1_Witness ==
  /\ hphase = "done"
  /\ current_context = "conto_economico"
  /\ \E i, j \in 1..Len(flat_data) :
       /\ i < j
       /\ flat_data[i].pushed /\ flat_data[i].voce_canonica = "C) Attivo circolante"
       /\ flat_data[j].pushed /\ flat_data[j].voce_canonica = "II - Crediti"
       /\ flat_data[i].valore = 40

\* C2: the parent stack is always a valid taxonomy path: the expected parent
\* of every entry above the bottom is the canonical name of the entry
\* immediately below it.
C2_StackIsTaxonomyPath ==
  \A k \in 2..Len(parent_stack) :
    parent_map[flat_data[parent_stack[k]].voce_canonica]
      = flat_data[parent_stack[k - 1]].voce_canonica

\* Two open parents on the stack after an earlier parent was closed
C2_Witness ==
  /\ Len(parent_stack) = 2
  /\ flat_data[parent_stack[1]].voce_canonica = "C) Attivo circolante"
  /\ flat_data[parent_stack[2]].voce_canonica = "II - Crediti"
  /\ \E i \in 1..Len(flat_data) : flat_data[i].completed >= 1

\* C3: when a parent is finalized, a zero own value becomes the sum of the
\* values of the items in its children buffer at that moment, a non-zero own
\* value is left unchanged, and the children buffer is removed.
C3_FinalizeAggregates ==
  [][\A i \in 1..Len(flat_data) :
       flat_data'[i].completed = flat_data[i].completed + 1 =>
         /\ flat_data'[i].valore =
              IF flat_data[i].valore = 0
              THEN BufferSum(flat_data', flat_data[i].children_buffer)
              ELSE flat_data[i].valore
         /\ ~flat_data'[i].has_children_buffer]_vars

\* A finalized parent whose zero value was replaced by 40 + 60, and a
\* finalized parent that kept its own value although its buffer sums to more
C3_Witness ==
  /\ \E i \in 1..Len(flat_data) :
       /\ flat_data[i].completed = 1
       /\ flat_data[i].voce_canonica = "II - Crediti"
       /\ flat_data[i].valore = 100
  /\ \E j \in 1..Len(flat_data) :
       /\ flat_data[j].completed = 1
       /\ flat_data[j].voce_canonica = "C) Attivo circolante"
       /\ flat_data[j].valore = 40

-----------------------------------------------------------------------------
(* Properties of the tolerance function *)

\* C9: _check_tolerance(a, b, ref) returns diff = |a - b|; with ref = 0 the
\* status is success if diff <= minimumTolerance and failed otherwise; with
\* ref # 0 and tolerance = max(|ref| * pct, minimumTolerance) the status is
\* success if diff <= immediateSuccessThreshold, else success_with_tolerance
\* if diff <= tolerance, else failed.  With the shipped settings 100000 vs
\* 100001.50 is success, vs 100900 success_with_tolerance, vs 102500 failed.
C9_ToleranceStatus ==
  tol_result # NoToleranceResult =>
    LET a    == tol_args.val1
        b    == tol_args.val2
        ref  == tol_args.ref_val
        diff == Abs(a - b)
        min  == validation_settings.tolerance_minimum
        imm  == validation_settings.immediate_success_threshold
        pct  == validation_settings.tolerance_percentage
        tolerance == Max(Abs(ref) * pct, min * PctDen)
    IN /\ tol_result.diff = diff
       /\ ref = 0 => tol_result.status = IF diff <= min THEN "success" ELSE "failed"
       /\ ref # 0 => tol_result.status =
            IF diff <= imm THEN "success"
            ELSE IF diff * PctDen <= tolerance THEN "success_with_tolerance"
            ELSE "failed"
       /\ (validation_settings = ShippedSettings /\ a = 10000000 /\ ref = a) =>
            /\ b = 10000150 => tol_result.status = "success"
            /\ b = 10090000 => tol_result.status = "success_with_tolerance"
            /\ b = 10250000 => tol_result.status = "failed"

\* The second shipped scenario has been evaluated
C9_Witness ==
  /\ tol_result # NoToleranceResult
  /\ validation_settings = ShippedSettings
  /\ tol_args = [val1 |-> 10000000, val2 |-> 10090000, ref_val |-> 10000000]
  /\ tol_result = [status |-> "success_with_tolerance", diff |-> 90000]

\* C10: for a fixed reference value and fixed settings, a comparison with a
\* smaller difference never has a worse status than one with a larger
\* difference (success < success_with_tolerance < failed).
C10_ToleranceMonotone ==
  LET
       \* Order of the statuses, best first
       StatusRank(status) ==
         CASE status = "success" -> 0
           [] status = "success_with_tolerance" -> 1
           [] status = "failed" -> 2
  IN  tol_result # NoToleranceResult =>
        \A a, b \in TolValues :
          Abs(a - b) < tol_result.diff =>
            StatusRank(_check_tolerance(validation_settings, a, b,
                                        tol_args.ref_val).status)
              <= StatusRank(tol_result.status)

\* A failed comparison for which smaller differences reach both better statuses
C10_Witness ==
  /\ tol_result # NoToleranceResult
  /\ tol_result.status = "failed"
  /\ tol_args.ref_val # 0
  /\ \E a, b \in TolValues :
       /\ Abs(a - b) < tol_result.diff
       /\ _check_tolerance(validation_settings, a, b, tol_args.ref_val).status
            = "success_with_tolerance"
  /\ \E a, b \in TolValues :
       /\ Abs(a - b) < tol_result.diff /\ Abs(a - b) > 0
       /\ _check_tolerance(validation_settings, a, b, tol_args.ref_val).status
            = "success"

-----------------------------------------------------------------------------
(* Properties of the supplement integration *)

\* C7: after an accepted integration the node's value equals the sum of the
\* values of the synthetic children stored under it, there is one synthetic
\* child per matched row, and the node is flagged enriched_from_ni.
C7_AcceptedIntegration ==
  enrich_result = "accepted" =>
    LET node == data_map[section_name]
    IN /\ node.valore = SumValore(node.dettaglio)
       /\ Len(node.dettaglio) = Len(ni_data)
       /\ \A k \in 1..Len(ni_data) :
            /\ node.dettaglio[k].voce_canonica = ni_data[k].voce_canonica
            /\ node.dettaglio[k].valore = ni_data[k].valore
            /\ node.dettaglio[k].from_ni
       /\ node.enriched_from_ni

\* An accepted integration of two matched rows over a node that had a
\* different schema value and an older child
C7_Witness ==
  /\ enrich_result = "accepted"
  /\ Len(ni_data) = 2
  /\ data_map[section_name].valore = 5000100
  /\ Len(table) = 2
  /\ table[1].match.patterns = {} /\ table[2].match.patterns = {}

\* C8: a rejected integration leaves the target node and every other entry
\* of the data map exactly as before the call.
C8_RejectedIntegrationFrame ==
  [][enrich_result' = "rejected" => data_map' = data_map]_vars

\* A rejection of a node that carries a value, maturity metadata and a child
C8_Witness ==
  /\ enrich_result = "rejected"
  /\ data_map[section_name].valore = 10000
  /\ data_map[section_name].scadenza.present
  /\ data_map[section_name].dettaglio # <<>>
  /\ ~data_map[section_name].enriched_from_ni

-----------------------------------------------------------------------------
(* Properties of the recalculation of totals *)

Sections == {"attivo", "passivo", "conto_economico"}

\* The nodes of a map at every depth, each with the map it sits in (its
\* level), its path, and whether one of its ancestors is flagged enriched
RECURSIVE NodesIn(_, _, _)
NodesIn(d, path, below) ==
  UNION { { [item |-> d[k], level |-> d, path |-> path \o <<d[k].voce_canonica>>,
             below_enriched |-> below] }
          \cup NodesIn(d[k].dettaglio, path \o <<d[k].voce_canonica>>,
                       below \/ d[k].enriched_from_ni) :
          k \in 1..Len(d) }

AllNodes(dt) == UNION { NodesIn(dt[s], <<s>>, FALSE) : s \in Sections }

IsNonEnrichedParent(item) == item.dettaglio # <<>> /\ ~item.enriched_from_ni

\* The declared formulas, the equity one taking the sibling value 'terzi'
DeclaredTotal(item, terzi) ==
  LET d == item.dettaglio
      v(key) == ValoreOf(d, key)

  IN CASE item.voce_canonica = "C) Proventi e oneri finanziari" ->
            v("15) Proventi da partecipazioni") + v("16) Altri proventi finanziari") - v("17) Interessi e altri oneri finanziari") + v("17-bis) Utile (perdita) su cambi")
       [] item.voce_canonica = "Imposte sul reddito dell'esercizio" ->
            SumValore(d) - 2 * v("Proventi (oneri) da adesione al regime di consolidato fiscale")
       [] item.voce_canonica = "D) Rettifiche di valore di attivita finanziarie" -> v("Rivalutazioni") - v("Svalutazioni")
       [] item.voce_canonica = "A) Patrimonio netto" -> SumValore(d) + terzi
       [] OTHER -> SumValore(d)

\* C4: recalculation is idempotent: a second run of
\* _recursive_recalculate_totals leaves the value of every non-enriched
\* parent node equal to its value after the first run, also in trees holding
\* 'A) Patrimonio netto' and a 'Patrimonio netto di terzi' sibling with children.
C4_RecalculationIdempotent ==
  [][LET
        ParentValues(dt) ==
          { <<n.path, n.item.valore>> : n \in { m \in AllNodes(dt) : IsNonEnrichedParent(m.item) } }
     IN  (n_recalc >= 1 /\ n_recalc' = n_recalc + 1)
           => ParentValues(data') = ParentValues(data)]_vars

Position(d, key) == CHOOSE k \in 1..Len(d) : d[k].voce_canonica = key

-----------------------------------------------------------------------------
(* Properties of the reclassifier mapping *)

RECURSIVE SignedSum(_)
SignedSum(lines) ==
  IF lines = <<>> THEN 0
  ELSE (IF lines[1].operation = "+" THEN lines[1].value ELSE -lines[1].value)
       + SignedSum(Tail(lines))

\* C6: a mapping rule with at least one declared child present in the
\* flattened data gets no audit line, every bucket total is the signed sum of
\* the audit lines of that bucket, and the totals do not depend on the value
\* of that rule, whatever its target and operation are.
C6_NoDoubleCounting ==
  LET
       HasPresentChild(rule, flat) ==
         \E c \in 1..Len(rule.children) : rule.children[c] \in DOMAIN flat
  IN  mphase = "mapped" =>
        /\ DOMAIN reclassified_totals = DOMAIN reclassified_details
        /\ \A b \in DOMAIN reclassified_totals :
             reclassified_totals[b] = SignedSum(reclassified_details[b])
        /\ \A k \in 1..Len(mapping_rules) :
             LET rule == mapping_rules[k]
             IN HasPresentChild(rule, rc_flat_data) =>
                  /\ \A b \in DOMAIN reclassified_details :
                       \A l \in 1..Len(reclassified_details[b]) :
                         reclassified_details[b][l].voce # rule.voce
                  /\ rule.voce \in DOMAIN rc_flat_data =>
                       _map_financial_items(mapping_rules,
                           [rc_flat_data EXCEPT ![rule.voce] = 0]).reclassified_totals
                         = reclassified_totals

\* A parent with a valid target and operation and a non-zero value is left
\* out because its child is present, and the child is mapped onto the same
\* bucket
C6_Witness ==
  /\ mphase = "mapped"
  /\ mapping_rules[2].voce = "II - Crediti"
  /\ mapping_rules[2].map_to = "Trade Debtors"
  /\ mapping_rules[2].operation = "+"
  /\ mapping_rules[2].children = <<"Crediti verso clienti">>
  /\ mapping_rules[3].map_to = "Trade Debtors"
  /\ mapping_rules[3].operation = "+"
  /\ {"II - Crediti", "Crediti verso clienti"} \subseteq DOMAIN rc_flat_data
  /\ "Trade Debtors" \in DOMAIN reclassified_totals
  /\ reclassified_totals["Trade Debtors"] = 300

-----------------------------------------------------------------------------
(* Properties of the consistency checks *)

\* The tolerance function: the status of a difference against a reference
ExpectedStatus(settings, diff, ref) ==
  IF ref = 0
  THEN IF diff <= settings.tolerance_minimum THEN "success" ELSE "failed"
  ELSE IF diff <= settings.immediate_success_threshold THEN "success"
  ELSE IF diff * PctDen <= Max(Abs(ref) * settings.tolerance_percentage,
                               settings.tolerance_minimum * PctDen)
       THEN "success_with_tolerance"
       ELSE "failed"

PerformedChecks ==
  { c \in {validations.attivo_vs_passivo, validations.coerenza_utile_esercizio} :
      c.present }

ReturnedStatuses == { c.status : c \in PerformedChecks }

\* C11 as stated: the overall status is failed exactly when a check returned
\* failed, else success_with_tolerance when a check returned that, else success.
C11_StatusFromReturnedChecks ==
  validations # NoValidations =>
    validations.summary =
      IF "failed" \in ReturnedStatuses THEN "failed"
      ELSE IF "success_with_tolerance" \in ReturnedStatuses THEN "success_with_tolerance"
      ELSE "success"

\* C11: the overall status is failed exactly when a check returned failed or
\* one of the two checks was not performed; otherwise it is
\* success_with_tolerance when a check returned that, and success otherwise.
C11_OverallStatus ==
  validations # NoValidations =>
    validations.summary =
      IF "failed" \in ReturnedStatuses
           \/ ~validations.attivo_vs_passivo.present
           \/ ~validations.coerenza_utile_esercizio.present
      THEN "failed"
      ELSE IF "success_with_tolerance" \in ReturnedStatuses THEN "success_with_tolerance"
      ELSE "success"

\* Both checks were performed, one passed exactly and one with tolerance
C11_Witness ==
  /\ validations.summary = "success_with_tolerance"
  /\ validations.attivo_vs_passivo.status = "success"
  /\ validations.coerenza_utile_esercizio.status = "success_with_tolerance"

FirstLevelAttivo == SumValore(data.attivo)

FirstLevelPassivo ==
  SumValore(data.passivo)
    - (IF \E k \in 1..Len(data.passivo) :
            data.passivo[k].voce_canonica = "Patrimonio netto di terzi"
       THEN data.passivo[Position(data.passivo, "Patrimonio netto di terzi")].valore
       ELSE 0)

BalanceCheckAgrees ==
  LET check == validations.attivo_vs_passivo
  IN /\ check.present =>
          /\ check.val1 = FirstLevelAttivo
          /\ check.val2 = FirstLevelPassivo
          /\ check.discrepanza = Abs(FirstLevelAttivo - FirstLevelPassivo)
          /\ check.status = ExpectedStatus(validation_settings,
                               Abs(FirstLevelAttivo - FirstLevelPassivo),
                               FirstLevelAttivo)
     /\ ~check.present => validations.summary = "failed" /\ validations.missing_message

\* C18 as stated: the balance check compares the first-level asset total with
\* the first-level liability total without 'Patrimonio netto di terzi', with
\* the asset total as reference, whenever balance-sheet data is present.
C18_BalanceCheckWheneverData ==
  validations # NoValidations =>
    /\ validations.attivo_vs_passivo.present
         <=> (data.attivo # <<>> \/ data.passivo # <<>>)
    /\ BalanceCheckAgrees

\* C18: the balance check is performed exactly when the first-level asset
\* total or the first-level liability total (without 'Patrimonio netto di
\* terzi') is greater than zero; it then compares these two totals with the
\* asset total as reference; otherwise no comparison is made, the missing-data
\* message is recorded and the overall status is failed.
C18_BalanceCheck ==
  validations # NoValidations =>
    /\ validations.attivo_vs_passivo.present
         <=> (FirstLevelAttivo > 0 \/ FirstLevelPassivo > 0)
    /\ BalanceCheckAgrees

\* A check passed with tolerance over liabilities that hold a third-party
\* equity node with a value of its own
C18_Witness ==
  /\ validations.attivo_vs_passivo.present
  /\ validations.attivo_vs_passivo.status = "success_with_tolerance"
  /\ \E k \in 1..Len(data.passivo) :
       /\ data.passivo[k].voce_canonica = "Patrimonio netto di terzi"
       /\ data.passivo[k].valore # 0
  /\ validations.attivo_vs_passivo.val2 # SumValore(data.passivo)

ItemsNamed(name) ==
  { n.item : n \in { m \in AllNodes(data) : m.item.voce_canonica = name } }

\* C19: the profit check compares the income-statement profit for the period
\* with 'IX - Utile (perdita) dell'esercizio' of the balance sheet; for a
\* consolidated document the value of 'Utile (perdita) di terzi' is added to
\* the balance-sheet side, for any other document it is not.
C19_ProfitAgreement ==
  LET
       ValueNamed(name) == (CHOOSE item \in ItemsNamed(name) : TRUE).valore
       IncomeStatementProfit ==
         IF is_consolidated_format /\ ItemsNamed("21) Utile (perdita) consolidati dell'esercizio") # {}
         THEN ItemsNamed("21) Utile (perdita) consolidati dell'esercizio")
         ELSE ItemsNamed("Utile (perdita) dell'esercizio")
  IN  validations # NoValidations =>
        LET check == validations.coerenza_utile_esercizio
            terzi == IF ItemsNamed("Utile (perdita) di terzi") # {} THEN ValueNamed("Utile (perdita) di terzi") ELSE 0
        IN /\ check.present <=>
                (IncomeStatementProfit # {} /\ ItemsNamed("IX - Utile (perdita) dell'esercizio") # {})
           /\ check.present =>
                LET val_ce == (CHOOSE item \in IncomeStatementProfit : TRUE).valore
                    val_sp == ValueNamed("IX - Utile (perdita) dell'esercizio")
                    side   == IF is_consolidated_format THEN val_sp + terzi ELSE val_sp
                IN /\ check.val1 = val_ce
                   /\ check.val2 = val_sp
                   /\ check.discrepanza = Abs(val_ce - side)
                   /\ check.status = ExpectedStatus(validation_settings,
                                        Abs(val_ce - side), val_ce)

\* A consolidated document whose profit agrees only once the third-party
\* profit is added
C19_Witness ==
  /\ validations.coerenza_utile_esercizio.present
  /\ is_consolidated_format
  /\ validations.coerenza_utile_esercizio.utile_di_terzi = 300
  /\ validations.coerenza_utile_esercizio.val1 = 50300
  /\ validations.coerenza_utile_esercizio.val2 = 50000
  /\ validations.coerenza_utile_esercizio.discrepanza = 0
  /\ validations.coerenza_utile_esercizio.status = "success"

-----------------------------------------------------------------------------
(* Properties of the integration decision *)

\* The schema total of a section node: its value, or the sum of its maturity
\* metadata when the value is zero
SchemaTotalOf(node) ==
  IF node.valore = 0 /\ node.scadenza.present
  THEN node.scadenza.entro + node.scadenza.oltre
  ELSE node.valore

IntegrationStep == ephase = "analyzed" /\ ni_data # <<>> /\ ephase' = "done"

-----------------------------------------------------------------------------
(* Properties of the reclassified statement *)

\* C13: the reclassified balance check compares the two 'BAL. SHEET TOT'
\* values; it is failed exactly when their absolute difference exceeds
\* max(2000 euro, 2% of the larger total), and when not failed it is success
\* for a difference of at most 2000 euro and success_with_tolerance otherwise.
C13_ReclassifiedBalanceCheck ==
  mphase = "validated" =>
    LET assets      == Get(final_data.ASSETS, "BAL. SHEET TOT")
        liabilities == Get(final_data.LIABILITIES, "BAL. SHEET TOT")
        difference  == Abs(assets - liabilities)
        larger      == IF assets >= liabilities THEN assets ELSE liabilities
        check       == balance_sheet_validation
    IN /\ check.assets_total = assets
       /\ check.liabilities_total = liabilities
       /\ check.difference = difference
       /\ check.status = "failed" <=>
            difference * PctDen > Max(RcToleranceMinimum * PctDen, RcTolerancePct * larger)
       /\ check.status # "failed" =>
            check.status = IF difference <= RcToleranceMinimum
                           THEN "success" ELSE "success_with_tolerance"

\* A difference above 2% of the smaller total and within 2% of the larger one
C13_Witness ==
  /\ mphase = "validated"
  /\ balance_sheet_validation.status = "success_with_tolerance"
  /\ balance_sheet_validation.assets_total = 15000000
  /\ balance_sheet_validation.liabilities_total = 15305000

\* C14: in the P&L cascade GROSS PROFIT is the amount mapped onto it plus
\* Total Sales, NET OP. PROFIT the amount mapped onto it plus GROSS PROFIT,
\* Cost of Sales is Total Sales less GROSS PROFIT, S G & A is GROSS PROFIT
\* less NET OP. PROFIT, PRE TAX PROFIT is NET OP. PROFIT plus Interest
\* Received less Interest Paid plus Other Income/Expense, and PROFIT AFTER TAX
\* is PRE TAX PROFIT less Taxation.
C14_PnLCascade ==
  mphase \in {"cascaded", "validated"} =>
    LET m == reclassified_totals
        p == final_data.PnL
    IN /\ p["GROSS PROFIT"] = Get(m, "GROSS PROFIT") + Get(m, "Total Sales")
       /\ p["NET OP. PROFIT"] = Get(m, "NET OP. PROFIT") + p["GROSS PROFIT"]
       /\ p["Cost of Sales"] = Get(m, "Total Sales") - p["GROSS PROFIT"]
       /\ p["S G & A"] = p["GROSS PROFIT"] - p["NET OP. PROFIT"]
       /\ p["PRE TAX PROFIT"] = p["NET OP. PROFIT"] + Get(m, "Interest Received")
                              - Get(m, "Interest Paid") + Get(m, "Other Income/Expense")
       /\ p["PROFIT AFTER TAX"] = p["PRE TAX PROFIT"] - Get(m, "Taxation")
       /\ Get(p, "Total Sales") = Get(m, "Total Sales")

\* Total Sales 1000, mapped GROSS PROFIT -600 and NET OP. PROFIT -150 give
\* 400, 250, Cost of Sales 600 and S G & A 150; interest and tax are mapped
C14_Witness ==
  /\ mphase = "cascaded"
  /\ Get(reclassified_totals, "Total Sales") = 100000
  /\ Get(reclassified_totals, "GROSS PROFIT") = -60000
  /\ Get(reclassified_totals, "NET OP. PROFIT") = -15000
  /\ final_data.PnL["GROSS PROFIT"] = 40000
  /\ final_data.PnL["NET OP. PROFIT"] = 25000
  /\ final_data.PnL["Cost of Sales"] = 60000
  /\ final_data.PnL["S G & A"] = 15000
  /\ {"Interest Received", "Interest Paid", "Other Income/Expense", "Taxation", "Cost of Sales"}
       \subseteq DOMAIN reclassified_totals
  /\ final_data.PnL["PROFIT AFTER TAX"] = 25000 + 500 - 2000 - 700 - 3000

-----------------------------------------------------------------------------
(* Properties of the data map *)

\* C17: the data map has one entry per canonical name of the stream; the
\* entry is the first item of that name with a non-zero value when there is
\* one and the first item of that name otherwise, so a later zero-valued item
\* never replaces an earlier non-zero one.
C17_DataMapKeepsFirstNonZero ==
  LET
       StreamPositions(name) == { k \in 1..Len(flat_data) : flat_data[k].voce_canonica = name }
       Least(positions) == CHOOSE k \in positions : \A j \in positions : k <= j
  IN  hphase = "built" =>
        /\ DOMAIN data_map = { flat_data[k].voce_canonica : k \in 1..Len(flat_data) }
        /\ \A name \in DOMAIN data_map :
             LET all     == StreamPositions(name)
                 nonzero == { k \in all : flat_data[k].valore # 0 }
             IN /\ data_map[name].voce_canonica = name
                /\ data_map[name] =
                     flat_data[IF nonzero # {} THEN Least(nonzero) ELSE Least(all)]
                /\ \A k \in all :
                     (flat_data[k].valore # 0 /\ \E j \in all : j > k /\ flat_data[j].valore = 0)
                       => data_map[name].valore # 0

\* A name that comes with zero, 40, 60 and zero again keeps the 40
C17_Witness ==
  /\ hphase = "built"
  /\ Len(flat_data) = 4
  /\ \A k \in 1..4 : flat_data[k].voce_canonica = "II - Crediti"
  /\ flat_data[1].valore = 0 /\ flat_data[2].valore = 40
  /\ flat_data[3].valore = 60 /\ flat_data[4].valore = 0
  /\ data_map["II - Crediti"].valore = 40

-----------------------------------------------------------------------------
(* Properties of one call of parse *)

\* The last call got past the item check without an exception
ReachedReclassification ==
  /\ attempt > 0
  /\ document.tables
  /\ document.items
  /\ document.raises # "parse"

\* C15: when the reclassification fails, its result has success = false,
\* empty reclassified data and details and an orphan count of 0, and parse
\* still returns the record with metadata, statement trees and validation
\* summary as they are without the failure.
C15_ReclassificationFailureIsContained ==
  LET
       \* The reclassification of the last call cannot succeed: the configuration is
       \* invalid, the statement holds no item, or an exception is raised
       ReclassificationFails ==
         \/ ~document.configuration_valid
         \/ document.structured_data = NoStatements
         \/ document.raises = "reclassification"
  IN  (ReachedReclassification /\ ReclassificationFails) =>
        LET validated == perform_validations(ShippedSettings, document.structured_data,
                                             document.is_consolidated_format)
        IN /\ reclassification_result.success = FALSE
           /\ reclassification_result.reclassified_data = <<>>
           /\ reclassification_result.reclassified_details = <<>>
           /\ reclassification_result.orphan_voices_count = 0
           /\ ~current_result.is_none
           /\ current_result.reclassification.success = FALSE
           /\ current_result.metadata =
                [file_name |-> "bilancio.pdf",
                 is_consolidated_format |-> document.is_consolidated_format]
           /\ current_result.stato_patrimoniale.attivo = validated.data.attivo
           /\ current_result.stato_patrimoniale.passivo = validated.data.passivo
           /\ current_result.conto_economico = validated.data.conto_economico
           /\ current_result.validazioni = validated.validations

\* An exception in the reclassifier, and a record whose validation succeeded
C15_Witness ==
  /\ ReachedReclassification
  /\ document.raises = "reclassification"
  /\ document.configuration_valid
  /\ ~current_result.is_none
  /\ current_result.validazioni.summary = "success"
  /\ current_result.reclassification.error = "Reclassification process failed"

\* C20: a call of parse returns nothing at all when no table was extracted,
\* when no item was classified or when a step raised an exception; every
\* record it does return carries metadata, validations and a
\* reclassification entry.
C20_ParseAllOrNothing ==
  attempt > 0 =>
    /\ (~document.tables \/ ~document.items \/ document.raises = "parse")
         => current_result = NoneResult
    /\ ~current_result.is_none =>
         /\ {"metadata", "validazioni", "reclassification"} \subseteq current_result.keys
         /\ current_result.metadata.file_name = "bilancio.pdf"
         /\ current_result.validazioni.summary
              \in {"success", "success_with_tolerance", "failed"}
         /\ "success" \in current_result.reclassification.keys
    /\ current_result.is_none => current_result.keys = {}

\* A call that found tables but no item, after a call that returned a record
C20_Witness ==
  /\ attempt = 2
  /\ ~results[1].is_none
  /\ document.tables /\ ~document.items /\ document.raises = "none"
  /\ current_result.is_none

-----------------------------------------------------------------------------
(* Properties of the retry loop *)

FullSuccess(result) == ~result.is_none /\ result.validazioni.summary = "success"

SuccessfulAttempts == { k \in 1..Len(results) : FullSuccess(results[k]) }

\* C16: a file is parsed at most three times, no attempt follows a fully
\* successful one, and the result kept is that of the first fully successful
\* attempt, or that of attempt 1 (possibly nothing) when there is none.
C16_RetryLoop ==
  /\ attempt <= max_attempts
  /\ Len(results) = attempt
  /\ \A k \in SuccessfulAttempts : k = Len(results)
  /\ lphase = "loop" => SuccessfulAttempts = {}
  /\ lphase = "done" =>
       /\ attempt >= 1
       /\ SuccessfulAttempts = {} => attempt = max_attempts
       /\ final_result =
            IF SuccessfulAttempts # {}
            THEN results[CHOOSE k \in SuccessfulAttempts :
                           \A j \in SuccessfulAttempts : k <= j]
            ELSE results[1]

\* Nothing, then a tolerated result, then full success: the third is kept
C16_Witness ==
  /\ lphase = "done"
  /\ attempt = 3
  /\ results[1].is_none
  /\ ~results[2].is_none /\ results[2].validazioni.summary = "success_with_tolerance"
  /\ FullSuccess(results[3])
  /\ final_result = results[3]

\* No success in three attempts: the first result is kept, here nothing
C16_WitnessFirstKept ==
  /\ lphase = "done"
  /\ attempt = 3
  /\ results[1].is_none
  /\ ~results[2].is_none
  /\ SuccessfulAttempts = {}
  /\ final_result.is_none

-----------------------------------------------------------------------------
(* Properties of one call of process_financial_item and of a whole run *)

\* C21 as stated: when an item X is handled, every open parent whose
\* canonical name differs from X's expected parent is popped and finalized.
C21_EveryOtherParentPopped ==
  [][LET i   == Len(flat_data) + 1
         SeqRange(q) == {q[k] : k \in DOMAIN q}
     IN (Len(flat_data') = i /\ flat_data'[i].voce_canonica \in SchemaNames) =>
          \A p \in SeqRange(parent_stack) :
            flat_data[p].voce_canonica # parent_map[flat_data'[i].voce_canonica] =>
              /\ p \notin SeqRange(parent_stack')
              /\ flat_data'[p].completed = flat_data[p].completed + 1]_vars

\* C21: when process_financial_item handles an item X, the open parents above
\* the topmost one named as X's expected parent (all of them when none is so
\* named) are popped and finalized without X in their buffer, the other open
\* parents stay open, and X is in the children buffer of at most one item: the
\* parent that is then on top of the stack, whose name is X's expected parent.
C21_PoppedBeforeAttached ==
  [][LET i   == Len(flat_data) + 1
         SeqRange(q) == {q[k] : k \in DOMAIN q}
     IN (Len(flat_data') = i /\ flat_data'[i].voce_canonica \in SchemaNames) =>
          LET expected == parent_map[flat_data'[i].voce_canonica]
              named    == {k \in DOMAIN parent_stack :
                             flat_data[parent_stack[k]].voce_canonica = expected}
              keep     == IF named = {} THEN 0
                          ELSE CHOOSE k \in named : \A m \in named : m <= k
              holders  == {p \in 1..i : i \in SeqRange(flat_data'[p].children_buffer)}
          IN /\ \A k \in (keep + 1)..Len(parent_stack) :
                  LET p == parent_stack[k]
                  IN /\ flat_data'[p].completed = flat_data[p].completed + 1
                     /\ ~flat_data'[p].has_children_buffer
                     /\ flat_data'[p].valore =
                          IF flat_data[p].has_children_buffer
                             /\ flat_data[p].children_buffer # <<>>
                             /\ flat_data[p].valore = 0
                          THEN BufferSum(flat_data', flat_data[p].children_buffer)
                          ELSE flat_data[p].valore
             /\ SubSeq(parent_stack', 1, keep) = SubSeq(parent_stack, 1, keep)
             /\ \A k \in 1..keep :
                  flat_data'[parent_stack[k]].completed = flat_data[parent_stack[k]].completed
             /\ holders = IF keep = 0 THEN {} ELSE {parent_stack[keep]}]_vars

\* The stream P(0), C1(40), C2(60), X with X a first-level item: P was
\* finalized with value 100 and X is the only open parent
C21_Witness ==
  /\ Len(flat_data) = 4
  /\ flat_data[1].voce_canonica = "II - Crediti"
  /\ flat_data[1].valore = 100
  /\ flat_data[1].completed = 1
  /\ ~flat_data[1].has_children_buffer
  /\ flat_data[2].valore = 40
  /\ flat_data[3].valore = 60
  /\ flat_data[4].voce_canonica = "C) Attivo circolante"
  /\ parent_stack = <<4>>

\* C26: when the section context changes every open parent is popped and
\* finalized, the parent stack is empty when the first item of a section is
\* processed, and the items of a children buffer all belong to the section
\* context of the item that owns the buffer.
C26_SectionsDoNotMix ==
  [][/\ current_context' # current_context =>
          /\ parent_stack' = <<>>
          /\ \A k \in DOMAIN parent_stack :
               /\ flat_data'[parent_stack[k]].completed =
                    flat_data[parent_stack[k]].completed + 1
               /\ ~flat_data'[parent_stack[k]].has_children_buffer
     /\ (/\ Len(flat_data') = Len(flat_data) + 1
         /\ \A q \in DOMAIN flat_data : flat_data[q].contesto # current_context) =>
          parent_stack = <<>>
     /\ \A p \in DOMAIN flat_data' :
          \A k \in DOMAIN flat_data'[p].children_buffer :
            flat_data'[flat_data'[p].children_buffer[k]].contesto = flat_data'[p].contesto
     /\ \A k \in DOMAIN parent_stack' :
          flat_data'[parent_stack'[k]].contesto = current_context']_vars

\* A parent of the balance sheet was open with one child when the income
\* statement began; it was finalized there and an income-statement parent is
\* now alone on the stack
C26_Witness ==
  /\ hphase = "scan"
  /\ current_context = "conto_economico"
  /\ Len(flat_data) = 3
  /\ flat_data[1].voce_canonica = "II - Crediti"
  /\ flat_data[1].valore = 40
  /\ flat_data[1].completed = 1
  /\ flat_data[2].voce_canonica = "Crediti verso clienti"
  /\ flat_data[3].contesto = "conto_economico"
  /\ parent_stack = <<3>>

\* C29: under any parent map one call of process_financial_item pops at most
\* as many entries as the stack holds when the call starts and leaves the
\* other entries in place, and finalize_hierarchy_context pops exactly the
\* entries the stack holds and leaves it empty.
C29_PopsBoundedByStack ==
  [][LET pops == Cardinality({p \in DOMAIN flat_data :
                                flat_data'[p].completed > flat_data[p].completed})
         i    == Len(flat_data) + 1
     IN /\ \A p \in DOMAIN flat_data :
             flat_data'[p].completed <= flat_data[p].completed + 1
        /\ Len(flat_data') = i =>
             /\ pops <= Len(parent_stack)
             /\ Len(parent_stack') =
                  Len(parent_stack) - pops + (IF flat_data'[i].pushed THEN 1 ELSE 0)
             /\ SubSeq(parent_stack', 1, Len(parent_stack) - pops) =
                  SubSeq(parent_stack, 1, Len(parent_stack) - pops)
        /\ (hphase' = "done" \/ current_context' # current_context) =>
             /\ pops = Len(parent_stack)
             /\ parent_stack' = <<>>]_vars

\* A finished run over names that only a cyclic parent map nests ('II - Crediti',
\* 'Crediti verso clienti', 'II - Crediti'): the three items were pushed and
\* each was finalized once
C29_Witness ==
  /\ hphase = "done"
  /\ Len(flat_data) = 3
  /\ flat_data[1].voce_canonica = "II - Crediti"
  /\ flat_data[2].voce_canonica = "Crediti verso clienti"
  /\ flat_data[3].voce_canonica = "II - Crediti"
  /\ \A p \in 1..3 : /\ flat_data[p].pushed
                     /\ flat_data[p].completed = 1
                     /\ flat_data[p].valore = 40

\* C30: an item is finalized at most once and only while it is on the stack;
\* when it is finalized every item above it on the stack is finalized too, the
\* children in its buffer that were pushed are finalized, and a computed sum
\* is the sum of the children's values as they then are; at the end of the
\* run every pushed item, and no other, has been finalized exactly once.
C30_FinalizedOnceLastInFirstOut ==
  [][/\ \A p \in DOMAIN flat_data :
          flat_data'[p].completed # flat_data[p].completed =>
            /\ flat_data[p].completed = 0
            /\ flat_data'[p].completed = 1
            /\ \E k \in DOMAIN parent_stack :
                 /\ parent_stack[k] = p
                 /\ \A m \in (k + 1)..Len(parent_stack) :
                      flat_data'[parent_stack[m]].completed = 1
            /\ \A k \in DOMAIN flat_data[p].children_buffer :
                 flat_data[flat_data[p].children_buffer[k]].pushed =>
                   flat_data'[flat_data[p].children_buffer[k]].completed = 1
            /\ (flat_data[p].children_buffer # <<>> /\ flat_data[p].valore = 0) =>
                 flat_data'[p].valore = BufferSum(flat_data', flat_data[p].children_buffer)
     /\ hphase' = "done" =>
          \A p \in DOMAIN flat_data' :
            flat_data'[p].completed = IF flat_data'[p].pushed THEN 1 ELSE 0]_vars

\* A finished run in which a parent took its value from a child that is a
\* parent itself and had taken its own value from a leaf
C30_Witness ==
  /\ hphase = "done"
  /\ Len(flat_data) = 3
  /\ flat_data[1].voce_canonica = "C) Attivo circolante"
  /\ flat_data[2].voce_canonica = "II - Crediti"
  /\ flat_data[3].voce_canonica = "Crediti verso clienti"
  /\ flat_data[3].valore = 60
  /\ flat_data[2].valore = 60
  /\ flat_data[1].valore = 60
  /\ flat_data[1].completed = 1
  /\ flat_data[2].completed = 1
  /\ flat_data[3].completed = 0

-----------------------------------------------------------------------------
(* Properties of the recalculation on enriched nodes *)

\* C25: a run of _recursive_recalculate_totals leaves every node flagged
\* enriched_from_ni, at any depth, as it was: its value, its children map and
\* every node of its subtree.
C25_EnrichedNodesUntouched ==
  [][n_recalc' = n_recalc + 1 =>
       \A n \in AllNodes(data) :
         n.item.enriched_from_ni =>
           \E m \in AllNodes(data') : m.path = n.path /\ m.item = n.item]_vars

\* After a run: an enriched 'II - Crediti' below a recalculated
\* 'C) Attivo circolante', with a child whose value is not the sum of its
\* maturity children, and the parent carrying the enriched value
C25_Witness ==
  /\ n_recalc >= 1
  /\ data.attivo[1].dettaglio[1].enriched_from_ni
  /\ data.attivo[1].dettaglio[1].valore = 10000
  /\ data.attivo[1].valore = 10000
  /\ \E k \in 1..Len(data.attivo[1].dettaglio[1].dettaglio) :
       LET child == data.attivo[1].dettaglio[1].dettaglio[k]
       IN child.dettaglio # <<>> /\ child.valore # SumValore(child.dettaglio)

-----------------------------------------------------------------------------
(* Properties of the third-party equity in the liabilities total *)

\* C22: when the liabilities hold a first-level 'Patrimonio netto di terzi'
\* with a non-zero value after perform_validations, the liabilities total of
\* the balance check contains that value exactly once: the total exceeds by
\* exactly that value the total the same statement gives with the third-party
\* equity line set to zero.
C22_TerziCountedOnce ==
  [][LET Zeroed(d) ==
           [k \in DOMAIN d |->
              IF d[k].voce_canonica = "Patrimonio netto di terzi"
              THEN [d[k] EXCEPT !.valore = 0,
                                !.dettaglio = [j \in DOMAIN @ |-> [@[j] EXCEPT !.valore = 0]]]
              ELSE d[k]]
         without == perform_validations(validation_settings,
                                        [data EXCEPT !.passivo = Zeroed(@)],
                                        is_consolidated_format)
     IN (/\ validations = NoValidations
         /\ validations' # NoValidations
         /\ ValoreOf(data'.passivo, "Patrimonio netto di terzi") # 0) =>
          _calculate_section_total(data'.passivo)
            - _calculate_section_total(without.data.passivo)
            = ValoreOf(data'.passivo, "Patrimonio netto di terzi")]_vars

-----------------------------------------------------------------------------
(* Properties of the three-pass analysis of a supplement table *)

\* C23: the items extracted by _analyze_ni_table_rows carry pairwise different
\* canonical names, all taken from the declared rules of the section, and
\* come from pairwise different table rows.
C23_PoolConsumed ==
  ephase # "table" =>
    /\ Len(ni_data) <= Len(enrichment_rules[section_name])
    /\ Len(ni_data) <= Len(table)
    /\ \A i \in DOMAIN ni_data :
         /\ \E p \in DOMAIN enrichment_rules[section_name] :
              enrichment_rules[section_name][p] = ni_data[i].voce_canonica
         /\ ni_data[i].voce_originale \in DOMAIN table
         /\ \A j \in DOMAIN ni_data :
              i # j => /\ ni_data[i].voce_canonica # ni_data[j].voce_canonica
                       /\ ni_data[i].voce_originale # ni_data[j].voce_originale

\* Two rows hold the pattern of the first rule; the first row took it and the
\* second took the other rule whose pattern it holds
C23_Witness ==
  /\ ephase = "analyzed"
  /\ Len(table) = 2
  /\ table[1].match.patterns = {1}
  /\ table[2].match.patterns = {1, 2}
  /\ Len(ni_data) = 2
  /\ ni_data[1].voce_canonica = enrichment_rules[section_name][1]
  /\ ni_data[2].voce_canonica = enrichment_rules[section_name][2]

\* C24: the extracted items are those of pass 0, then those of pass 1, then
\* those of pass 2, each group in row order; a row matched after pass 0 had no
\* pattern of a rule left by the earlier rows of pass 0, a row matched after
\* pass 1 had no high-confidence candidate left by pass 0 and the earlier rows
\* of pass 1, an unmatched row had no candidate left in any pass it reached;
\* no rule taken in a pass is given again in a later one.
C24_PassesInStrictOrder ==
  ephase # "table" =>
    LET rules      == enrichment_rules[section_name]
        PosOf(x)   == CHOOSE p \in DOMAIN rules : rules[p] = x.voce_canonica
        MatchOf(x) == table[x.voce_originale].match
        InSeq(c, q) == \E k \in DOMAIN q : q[k] = c
        \* The pass that gave x its rule
        PassOf(x)  == IF PosOf(x) \in MatchOf(x).patterns THEN 0
                      ELSE IF InSeq(PosOf(x), MatchOf(x).ratio) THEN 1 ELSE 2
        \* The last pass that row r went through without a match, -1 if none
        Missed(r)  == IF \E i \in DOMAIN ni_data : ni_data[i].voce_originale = r
                      THEN PassOf(ni_data[CHOOSE i \in DOMAIN ni_data :
                                            ni_data[i].voce_originale = r]) - 1
                      ELSE 2
        \* Rule c was taken before row r is tried in the given pass
        Taken(c, r, pass) ==
          \E i \in DOMAIN ni_data :
            /\ PosOf(ni_data[i]) = c
            /\ \/ PassOf(ni_data[i]) < pass
               \/ PassOf(ni_data[i]) = pass /\ ni_data[i].voce_originale < r
    IN /\ \A i \in DOMAIN ni_data :
            PassOf(ni_data[i]) = 2 => InSeq(PosOf(ni_data[i]), MatchOf(ni_data[i]).wratio)
       /\ \A i, j \in DOMAIN ni_data :
            i < j => \/ PassOf(ni_data[i]) < PassOf(ni_data[j])
                     \/ /\ PassOf(ni_data[i]) = PassOf(ni_data[j])
                        /\ ni_data[i].voce_originale < ni_data[j].voce_originale
       /\ \A i, j \in DOMAIN ni_data : i # j => PosOf(ni_data[i]) # PosOf(ni_data[j])
       /\ \A r \in DOMAIN table :
            /\ Missed(r) >= 0 => \A c \in table[r].match.patterns : Taken(c, r, 0)
            /\ Missed(r) >= 1 =>
                 \A k \in DOMAIN table[r].match.ratio : Taken(table[r].match.ratio[k], r, 1)
            /\ Missed(r) >= 2 =>
                 \A k \in DOMAIN table[r].match.wratio : Taken(table[r].match.wratio[k], r, 2)

\* The first row has only a flexible candidate, the second a high-confidence
\* one for the same rule: the second row is matched first, in pass 1, and the
\* first row gets the other rule in pass 2
C24_Witness ==
  /\ ephase = "analyzed"
  /\ Len(table) = 2
  /\ table[1].match = [patterns |-> {}, ratio |-> <<>>, wratio |-> <<1, 2>>]
  /\ table[2].match = [patterns |-> {}, ratio |-> <<1>>, wratio |-> <<1>>]
  /\ Len(ni_data) = 2
  /\ ni_data[1].voce_originale = 2
  /\ ni_data[1].voce_canonica = enrichment_rules[section_name][1]
  /\ ni_data[2].voce_originale = 1
  /\ ni_data[2].voce_canonica = enrichment_rules[section_name][2]

-----------------------------------------------------------------------------
(* Properties of the balance-sheet cascades *)

\* C28: in both balance-sheet cascades 'BAL. SHEET TOT' is the sum of the
\* subtotals, every subtotal ('TOT CURR. ASS.', 'TOTAL FIX. ASS.',
\* 'TOT CURR. LIAB.', 'TOTAL LT LIAB', 'TOT NET WORTH') is the amount mapped
\* onto it plus its component lines, and every residual line equals the
\* amount mapped onto its subtotal.
C28_BalanceSheetCascades ==
  mphase \in {"cascaded", "validated"} =>
    LET m == reclassified_totals
        a == final_data.ASSETS
        l == final_data.LIABILITIES
    IN /\ a["BAL. SHEET TOT"] = a["TOT CURR. ASS."] + a["TOTAL FIX. ASS."]
       /\ a["Quick Assets"] = Get(m, "Cash & Equivalent") + Get(m, "Trade Debtors")
       /\ a["TOT CURR. ASS."] = Get(m, "TOT CURR. ASS.") + a["Quick Assets"]
                                + Get(m, "Stock & Work in Progr.")
       /\ a["TOTAL FIX. ASS."] = Get(m, "TOTAL FIX. ASS.") + Get(m, "Tangible Fxed Assets")
                                 + Get(m, "Intangibles") + Get(m, "Goodwill")
       /\ a["Other Current"] = Get(m, "TOT CURR. ASS.")
       /\ a["Financial/Other fix Ass"] = Get(m, "TOTAL FIX. ASS.")
       /\ l["BAL. SHEET TOT"] = l["TOT CURR. LIAB."] + l["TOTAL LT LIAB"] + l["TOT NET WORTH"]
       /\ l["Total Short Term Debt"] = Get(m, "Overdrafts & STD") + Get(m, "Current Portion LTD")
       /\ l["TOT CURR. LIAB."] = Get(m, "TOT CURR. LIAB.") + l["Total Short Term Debt"]
                                 + Get(m, "Trade Creditors")
       /\ l["TOTAL LT LIAB"] = Get(m, "TOTAL LT LIAB") + Get(m, "Total Long Term Debt")
                               + Get(m, "Provisions")
       /\ l["TOT NET WORTH"] = Get(m, "TOT NET WORTH") + Get(m, "Share Holders Funds")
                               + Get(m, "Ret'd Earnings/Resv's")
       /\ l["Other Current"] = Get(m, "TOT CURR. LIAB.")
       /\ l["Sub. Loan/Oth. LT"] = Get(m, "TOTAL LT LIAB")

-----------------------------------------------------------------------------
(* Interactive editor: one overwritten value *)

\* update_nested_value over the items k..Len(d) of the map d: the first item,
\* in depth-first order, whose key is item_key gets the new value
RECURSIVE update_nested_value(_, _, _, _)
update_nested_value(d, k, item_key, new_value) ==
  IF k > Len(d) THEN [found |-> FALSE, d |-> d]
  ELSE IF d[k].voce_canonica = item_key
       THEN [found |-> TRUE, d |-> [d EXCEPT ![k].valore = new_value]]
       ELSE LET below == update_nested_value(d[k].dettaglio, 1, item_key, new_value)
            IN IF below.found
               THEN [found |-> TRUE, d |-> [d EXCEPT ![k].dettaglio = below.d]]
               ELSE update_nested_value(d, k + 1, item_key, new_value)

\* recalc_node of recalculate_totals: the children first, also below an
\* enriched node; then the plain sum of the children, kept out when the node
\* is enriched or when the sum is zero and the node has a value
RECURSIVE recalc_node(_)
recalc_node(node) ==
  IF node.dettaglio = <<>> THEN node
  ELSE LET children == [k \in DOMAIN node.dettaglio |-> recalc_node(node.dettaglio[k])]
           children_sum == SumValore(children)
       IN IF ~node.enriched_from_ni /\ (children_sum # 0 \/ node.valore = 0)
          THEN [node EXCEPT !.dettaglio = children, !.valore = children_sum]
          ELSE [node EXCEPT !.dettaglio = children]

\* app.recalculate_totals: recalc_node is called on the values of every
\* top-level dict of the result.  For 'conto_economico' these are its items;
\* for 'stato_patrimoniale' they are the maps 'attivo' and 'passivo', which
\* have no key 'dettaglio', so nothing is recalculated there
recalculate_totals(d) ==
  [attivo          |-> d.attivo,
   passivo         |-> d.passivo,
   conto_economico |-> [k \in DOMAIN d.conto_economico |-> recalc_node(d.conto_economico[k])]]

\* app.apply_user_modifications on the statements of the result: the deep
\* copy is changed; recalculate_brsf then only replaces the key
\* 'reclassification'
apply_user_modifications(result_data, modifications) ==
  IF modifications = <<>> THEN result_data
  ELSE LET mod == modifications[1]
       IN recalculate_totals(
            [result_data EXCEPT ![mod.section] =
               update_nested_value(@, 1, mod.item_key, mod.new_value).d])

InitU ==
  LET
       \* The statements of a parse result: perform_validations has recalculated them
       ParsedStatements ==
         [attivo : { <<Node("C) Attivo circolante", 0,
                           <<Node("II - Crediti", 0, <<Leaf("Crediti verso clienti", x)>>)>>)>> :
                       x \in {40, 60} },
          passivo : { <<Node("A) Patrimonio netto", 0, <<Leaf("I - Capitale", 100)>>)>>
                        \o terzi \o <<Leaf("D) Debiti", 700)>> :
                        terzi \in { <<>>, <<Leaf("Patrimonio netto di terzi", 30)>> } },
          conto_economico :
            { <<Node("A) Valore della produzione", 0,
                     <<Leaf("1) Ricavi delle vendite e delle prestazioni", 900)>>),
                Node("C) Proventi e oneri finanziari", 0,
                     <<Leaf("15) Proventi da partecipazioni", 10), Leaf("16) Altri proventi finanziari", 5),
                       Leaf("17) Interessi e altri oneri finanziari", 3), Leaf("17-bis) Utile (perdita) su cambi", -2)>>),
                Node("D) Rettifiche di valore di attivita finanziarie", 0,
                     <<Leaf("Rivalutazioni", 9), Leaf("Svalutazioni", r)>>)>> :
                r \in {0, 2} }]
  IN  /\ IdleD
      /\ IdleH
      /\ IdleT
      /\ IdleE
      /\ IdleV
      /\ IdleM
      /\ stored_result \in { _recursive_recalculate_totals(d) : d \in ParsedStatements }
      /\ user_modifications = <<>>
      /\ modified_result = stored_result

\* The user overwrites the value of one editable line (no children, not
\* enriched) and the statements are displayed again
EditLeaf ==
  /\ user_modifications = <<>>
  /\ \E section \in Sections, new_value \in {0, 12300} :
       \E n \in NodesIn(stored_result[section], <<section>>, FALSE) :
         /\ n.item.dettaglio = <<>>
         /\ ~n.item.enriched_from_ni
         /\ user_modifications' = <<[section |-> section, item_key |-> n.item.voce_canonica,
                                     new_value |-> new_value]>>
         /\ modified_result' = apply_user_modifications(stored_result, user_modifications')
  /\ UNCHANGED <<stored_result, hvars, tvars, evars, vvars, mvars, dvars>>

NextU == EditLeaf

SpecU == InitU /\ [][NextU]_vars

-----------------------------------------------------------------------------
(* Properties of the editor *)

\* C27: after one value is overwritten the displayed statements carry, node
\* by node, the values that _recursive_recalculate_totals gives on the stored
\* statements with that value overwritten, and the stored statements are
\* unchanged.
C27_EditorMatchesValidator ==
  [][LET Values(dt) == { <<n.path, n.item.valore>> : n \in AllNodes(dt) }
     IN user_modifications' # user_modifications =>
          LET mod    == user_modifications'[1]
              edited == [stored_result EXCEPT ![mod.section] =
                           update_nested_value(@, 1, mod.item_key, mod.new_value).d]
          IN /\ stored_result' = stored_result
             /\ Values(modified_result') = Values(_recursive_recalculate_totals(edited))]_vars

=============================================================================
